---------------------------- MODULE Spec2Model ----------------------------
(***************************************************************************)
(* A model of the durability and iteration core of the HSE storage engine  *)
(* connector for MongoDB:                                                  *)
(*   - KVDBDurabilityManager and KVDBJournalFlusher                        *)
(*     (hse_durability_manager.cpp): sync(), waitUntilDurable(),           *)
(*     prepareForShutdown(), the flusher's worker loop;                    *)
(*   - KvsCursor (hse_kvscursor.cpp): read(), seek(), update(), and the     *)
(*     creation and destruction of its native cursor;                      *)
(*   - KVDBData (hse.h): the byte buffer and its order.                    *)
(* Threads are interleaved at the granularity of the lock operations,      *)
(* atomic loads/stores and collaborator calls of the source.               *)
(***************************************************************************)
EXTENDS Integers, Sequences, FiniteSets, TLC

(***************************************************************************)
(* Bounds of the model.                                                    *)
(***************************************************************************)
\* sync() calls each caller thread makes
MaxCalls == 1
\* waitUntilDurable() calls each waiter thread makes
MaxWaitCalls == 1
\* the flusher's commit-interval timer expires only while numSyncs is below
\* this (or while a waiter is parked, see TimerMayExpire)
MaxSyncs == 2
\* highest commit boundary a visibility manager hands out
MaxBound == 1
\* keys of the key-value store a cursor iterates: 1..MaxKey
MaxKey == 3
\* put() and delete calls made on the store while a cursor is open
MaxWrites == 1
\* native cursors the store hands out to one KvsCursor: handles 1..MaxHandles
MaxHandles == 2
\* EAGAIN results the store gives before it stops giving them
MaxEagain == 2
\* longest caller's byte array a KVDBData is made over or appended from, and
\* largest allocation asked of createOwned()
MaxLen == 2
\* byte values of those arrays: 0..MaxByte, 0 being the NUL
MaxByte == 1
\* longest buffer given to operator< and operator==
MaxWord == 3
\* notifyFlusher() calls made on the flusher by its clients
MaxNotes == 2
\* initOplogStoreThread() calls each calling thread makes
MaxInitCalls == 2
\* EAGAIN results the store gives where the backoff of the retries is
\* followed up to its second warning
MaxRetry == 41

(***************************************************************************)
(* Threads and collaborators.                                              *)
(***************************************************************************)
Callers == {"c1", "c2"}
Waiters == {"w1"}
FlusherThread == "flusher"
ShutdownThread == "pfs"
SyncThreads == Callers \cup {FlusherThread, ShutdownThread}

\* &NoOpJournalListener::instance and one listener installed later
NoOpListener == "noop"
Listeners == {NoOpListener, "jl1"}
\* nullptr and the KVDBCappedVisibilityManager of the oplog store
NoManager == "null"
Managers == {"vm1"}

Free == "free"
\* newBound is declared without an initializer in sync()
Uninit == -1

VARIABLES
    \* KVDBDurabilityManager
    durable,                 \* _durable
    numSyncs,                \* _numSyncs
    numWaits,                \* _numWaits
    shuttingDown,            \* _shuttingDown
    journalListener,         \* _journalListener
    oplogVisibilityManager,  \* _oplogVisibilityManager
    journalFlusher,          \* _journalFlusher: "none", "running", "released"
    journalListenerMutex,    \* _journalListenerMutex: Free or its holder
    oplogMutex,              \* _oplogMutex
    syncMutex,               \* _syncMutex
    \* one sync() activation per thread
    spc,                     \* position inside sync()
    token,                   \* local: token
    newBound,                \* local: newBound
    \* waitUntilDurable() activations
    wpc, waitFor, wcalls,
    \* KVDBJournalFlusher
    fpc,                     \* position of run()
    flushPending,            \* _flushPending
    fShuttingDown,           \* KVDBJournalFlusher::_shuttingDown
    \* prepareForShutdown()
    ppc,
    \* callers of sync()
    ccalls,
    \* collaborators
    commitBoundary,          \* what getCommitBoundary() of each manager returns
    tokenSeq,                \* tokens handed out by getToken() so far
    \* the process
    crashed,
    \* history
    sg,                      \* per sync() activation: what it has done so far
    lastCallback,            \* the last durableCallback() delivered
    lastDurable,             \* the last onDurable() delivered
    completedSyncs,          \* sync() activations that ran to completion
    pg,                      \* prepareForShutdown(): what it saw
    wg,                      \* per waitUntilDurable() call: flushes since it began
    fg                       \* notifyFlusher() calls against the worker's wakes and syncs

mgrVars == <<durable, numSyncs, numWaits, shuttingDown, journalListener,
             oplogVisibilityManager, journalFlusher, journalListenerMutex,
             oplogMutex, syncMutex>>
syncVars == <<spc, token, newBound>>
waitVars == <<wpc, waitFor, wcalls>>
flusherVars == <<fpc, flushPending, fShuttingDown>>
envVars == <<commitBoundary, tokenSeq>>
syncHist == <<sg, lastCallback, lastDurable, completedSyncs, pg>>
histVars == <<syncHist, wg>>

durVars == <<mgrVars, syncVars, waitVars, flusherVars, ppc, ccalls, envVars,
             crashed, histVars, fg>>

\* the key-value store and one KvsCursor, next to a second KvsCursor that
\* can be given the same read() and seek() calls and never an update()
VARIABLES
    store,                   \* the kvs: key -> value, Absent where there is none
    writes,                  \* put() / delete calls so far
    cur,                     \* the KvsCursor
    ref,                     \* the KvsCursor that is never updated
    res,                     \* what the last read() on cur returned
    refRes,                  \* what the last read() on ref returned
    lastOp,                  \* the last call made on cur
    resume                   \* history: the read() / update() pair under way

curVars == <<store, writes, cur, ref, res, refRes, lastOp, resume>>

\* the native cursor handle of the KvsCursor and the calls that make and
\* destroy it
VARIABLES
    cursor,                  \* _cursor: NullHandle or a handle of the store
    kpc,                     \* where the KvsCursor object is in its life
    retries,                 \* retries of the running or last _kvs_cursor_create()
    issued,                  \* handles the store has handed out: 1..issued
    destroyed,               \* handle -> hse_kvs_cursor_destroy() calls on it
    attempts,                \* history: native create calls of that _kvs_cursor_create()
    lastSt,                  \* history: what the last native create call returned
    eagains,                 \* EAGAIN results the store has given
    eagainLimit,             \* EAGAIN results the store gives in all
    sleepTime,               \* local of _kvs_cursor_create(): sleepTime
    slept,                   \* history: the last sleep_for() of that call
    warned                   \* history: retries at which that call logged its warning

backoffVars == <<sleepTime, slept, warned>>
handleVars == <<cursor, kpc, retries, issued, destroyed, attempts, lastSt, eagains,
                eagainLimit, backoffVars>>

\* two KVDBData objects and the memory they point into
VARIABLES
    ext,                     \* the caller's byte array that views are made over
    heap,                    \* allocation -> its bytes, <<>> while not allocated
    buf,                     \* 1, 2 -> the members of the KVDBData object b1, b2
    bst,                     \* the Status the last copy() returned
    oob,                     \* history: a memcpy has left the memory it was given
    ord                      \* two buffers' valid bytes and what operator<, == say of them

bufVars == <<ext, heap, buf, bst, oob, ord>>

\* the registry of the oplog background threads and the threads that call
\* KVDBEngine::initOplogStoreThread
VARIABLES
    backgroundThreadNamespaces,  \* _backgroundThreadNamespaces
    backgroundThreadMutex,       \* _backgroundThreadMutex: Free or its holder
    repair,                      \* storageGlobalParams.repair
    started,                     \* namespace -> KVDBOplogStoreThread jobs started with go()
    ipc,                         \* position of each caller inside the call
    ins,                         \* the argument ns of each caller's call
    iret,                        \* history: what each caller's last call returned
    icalls                       \* calls each caller has made

oplogVars == <<backgroundThreadNamespaces, backgroundThreadMutex, repair, started,
               ipc, ins, iret, icalls>>

vars == <<durVars, curVars, handleVars, bufVars, oplogVars>>

NoToken == [lsn |-> NoOpListener, seq |-> 0]
NoCallback == [mgr |-> NoManager, bound |-> Uninit]
NoDurable == [lsn |-> NoOpListener, tok |-> NoToken]
FreshSync == [gets |-> 0, captured |-> NoToken,
              flushed |-> FALSE, incremented |-> FALSE,
              read |-> Uninit, atIssue |-> Uninit, mgr |-> NoManager]
\* a waitUntilDurable() call that has seen no kvdb_sync() yet: whether a
\* kvdb_sync() was in progress when the call began, the threads whose
\* kvdb_sync() was called since then, and whether one of those has returned
FreshWait == [inProgress |-> FALSE, issued |-> {}, served |-> FALSE]
\* no notifyFlusher() call yet: the calls made so far, those made since the
\* worker last cleared _flushPending, those of them made while it waited,
\* the number the worker's last wake consumed, the sync() calls the worker
\* has made in this turn of its loop, whether a call is still to be
\* followed by a kvdb_sync() of the worker, the calls made since the worker's
\* last kvdb_sync() while it was still inside that sync(), and the number of
\* such calls that its last kvdb_sync() followed
NoNotes == [total |-> 0, notes |-> 0, waiting |-> 0, woke |-> 0, syncs |-> 0,
            owed |-> FALSE, late |-> 0, served |-> 0]
NoShutdown == [synced |-> FALSE, flagAfterSync |-> FALSE, need |-> [w \in Waiters |-> 0]]

(***************************************************************************)
(* KVDBDurabilityManager::KVDBDurabilityManager                            *)
(***************************************************************************)
DurInit ==
    /\ durable \in BOOLEAN
    /\ numSyncs = 0
    /\ numWaits = 0
    /\ shuttingDown = FALSE
    /\ journalListener = NoOpListener
    /\ oplogVisibilityManager = NoManager
    /\ journalFlusher = IF durable THEN "running" ELSE "none"
    /\ journalListenerMutex = Free
    /\ oplogMutex = Free
    /\ syncMutex = Free
    /\ spc = [t \in SyncThreads |-> "idle"]
    /\ token = [t \in SyncThreads |-> NoToken]
    /\ newBound = [t \in SyncThreads |-> Uninit]
    /\ wpc = [w \in Waiters |-> "idle"]
    /\ waitFor = [w \in Waiters |-> 0]
    /\ wcalls = [w \in Waiters |-> 0]
    /\ fpc = IF durable THEN "top" ELSE "none"
    /\ flushPending = FALSE
    /\ fShuttingDown = FALSE
    /\ ppc = "idle"
    /\ ccalls = [c \in Callers |-> 0]
    /\ commitBoundary = [m \in Managers |-> 0]
    /\ tokenSeq = 0
    /\ crashed = FALSE
    /\ sg = [t \in SyncThreads |-> FreshSync]
    /\ lastCallback = NoCallback
    /\ lastDurable = NoDurable
    /\ completedSyncs = 0
    /\ pg = NoShutdown
    /\ wg = [w \in Waiters |-> FreshWait]
    /\ fg = NoNotes

(***************************************************************************)
(* KVDBDurabilityManager::setJournalListener                               *)
(***************************************************************************)
\* a setter that assigns without taking the mutex
SetterLockSkipped == TRUE

\* std::lock_guard<std::mutex> lock(_journalListenerMutex): the setter gets
\* the mutex only while no sync() holds it
SetterLockAvailable == journalListenerMutex = Free

SetJournalListener(jl) ==
    /\ SetterLockAvailable
    /\ journalListener # jl
    /\ journalListener' = jl
    /\ UNCHANGED <<durable, numSyncs, numWaits, shuttingDown, oplogVisibilityManager,
                   journalFlusher, journalListenerMutex, oplogMutex, syncMutex>>
    /\ UNCHANGED <<syncVars, waitVars, flusherVars, ppc, ccalls, envVars, crashed, histVars>>

(***************************************************************************)
(* KVDBDurabilityManager::setOplogVisibilityManager                        *)
(***************************************************************************)
\* a setter that assigns without taking the mutex
OplogLockSkipped == TRUE

\* std::lock_guard<std::mutex> lock(_oplogMutex): the setter gets the mutex
\* only while no sync() holds it
OplogLockAvailable == oplogMutex = Free

SetOplogVisibilityManager(kcvm) ==
    /\ OplogLockAvailable
    /\ oplogVisibilityManager # kcvm
    /\ oplogVisibilityManager' = kcvm
    /\ UNCHANGED <<durable, numSyncs, numWaits, shuttingDown, journalListener,
                   journalFlusher, journalListenerMutex, oplogMutex, syncMutex>>
    /\ UNCHANGED <<syncVars, waitVars, flusherVars, ppc, ccalls, envVars, crashed, histVars>>

\* The oplog grows: the commit boundary of a visibility manager advances.
AdvanceBoundary(m) ==
    /\ commitBoundary[m] < MaxBound
    /\ commitBoundary' = [commitBoundary EXCEPT ![m] = @ + 1]
    /\ UNCHANGED tokenSeq
    /\ UNCHANGED <<mgrVars, syncVars, waitVars, flusherVars, ppc, ccalls, crashed, histVars>>

(***************************************************************************)
(* KVDBDurabilityManager::sync, one action per step of thread t.           *)
(*   "begin"     about to take _journalListenerMutex, call getToken(),     *)
(*               take _oplogMutex and read the commit boundary             *)
(*   "issue"     about to call _db.kvdb_sync()                             *)
(*   "flush"     inside _db.kvdb_sync()                                    *)
(*   "callback"  kvdb_sync() returned; about to call durableCallback()     *)
(*   "inc"       about to take _syncMutex and increment _numSyncs          *)
(*   "notifyAll" about to call _syncDoneCV.notify_all() and onDurable()    *)
(* _oplogMutex is only ever held across steps by a thread that holds       *)
(* _journalListenerMutex, so taking it in sync() never waits and is part   *)
(* of the step that takes _journalListenerMutex.                           *)
(***************************************************************************)
\* a sync() that does not take the mutex
SyncLockSkipped == TRUE

\* std::lock_guard<std::mutex> lock(_journalListenerMutex) in sync()
SyncLockAvailable == journalListenerMutex = Free

\* JournalListener::getToken(): a token of the listener installed now
GetToken == [lsn |-> journalListener, seq |-> tokenSeq + 1]

\* lock_guard lock(_journalListenerMutex); token = _journalListener->getToken();
\* _oplogMutex.lock(); if (_oplogVisibilityManager) newBound = getCommitBoundary();
SyncBegin(t) ==
    /\ spc[t] = "begin"
    /\ SyncLockAvailable
    /\ oplogMutex = Free
    /\ journalListenerMutex' = t
    /\ token' = [token EXCEPT ![t] = GetToken]
    /\ tokenSeq' = tokenSeq + 1
    /\ oplogMutex' = t
    /\ IF oplogVisibilityManager # NoManager
         THEN /\ newBound' = [newBound EXCEPT ![t] = commitBoundary[oplogVisibilityManager]]
              /\ sg' = [sg EXCEPT ![t].gets = @ + 1, ![t].captured = GetToken,
                                  ![t].read = commitBoundary[oplogVisibilityManager],
                                  ![t].mgr = oplogVisibilityManager]
         ELSE /\ UNCHANGED newBound
              /\ sg' = [sg EXCEPT ![t].gets = @ + 1, ![t].captured = GetToken]
    /\ spc' = [spc EXCEPT ![t] = "issue"]
    /\ UNCHANGED <<durable, numSyncs, numWaits, shuttingDown, journalListener,
                   oplogVisibilityManager, journalFlusher, syncMutex>>
    /\ UNCHANGED <<waitVars, flusherVars, ppc, ccalls, commitBoundary, crashed,
                   lastCallback, lastDurable, completedSyncs, pg, wg>>

\* _db.kvdb_sync() is called
SyncFlushIssue(t) ==
    /\ spc[t] = "issue"
    /\ spc' = [spc EXCEPT ![t] = "flush"]
    /\ sg' = [sg EXCEPT ![t].atIssue =
                 IF oplogVisibilityManager # NoManager
                 THEN commitBoundary[oplogVisibilityManager] ELSE Uninit]
    /\ wg' = [w \in Waiters |->
                 IF wpc[w] # "idle" /\ ~wg[w].served
                 THEN [wg[w] EXCEPT !.issued = @ \cup {t}] ELSE wg[w]]
    /\ UNCHANGED <<mgrVars, token, newBound, waitVars, flusherVars, ppc, ccalls, envVars,
                   crashed, lastCallback, lastDurable, completedSyncs, pg>>

\* _db.kvdb_sync() returns (invariantHseSt: a failure ends the process)
SyncFlushReturn(t) ==
    /\ spc[t] = "flush"
    /\ spc' = [spc EXCEPT ![t] = "callback"]
    /\ sg' = [sg EXCEPT ![t].flushed = TRUE]
    /\ wg' = [w \in Waiters |->
                 IF t \in wg[w].issued
                 THEN [wg[w] EXCEPT !.issued = {}, !.served = TRUE] ELSE wg[w]]
    /\ UNCHANGED <<mgrVars, token, newBound, waitVars, flusherVars, ppc, ccalls, envVars,
                   crashed, lastCallback, lastDurable, completedSyncs, pg>>

\* a sync() that reads the commit boundary again after the flush
CallbackBoundReread(t) == commitBoundary[oplogVisibilityManager]

\* the argument of _oplogVisibilityManager->durableCallback(newBound)
CallbackBound(t) == newBound[t]

\* if (_oplogVisibilityManager) durableCallback(newBound); _oplogMutex.unlock();
SyncCallback(t) ==
    /\ spc[t] = "callback"
    /\ IF oplogVisibilityManager # NoManager
         THEN lastCallback' = [mgr |-> oplogVisibilityManager, bound |-> CallbackBound(t)]
         ELSE UNCHANGED lastCallback
    /\ oplogMutex' = Free
    /\ spc' = [spc EXCEPT ![t] = "inc"]
    /\ UNCHANGED <<durable, numSyncs, numWaits, shuttingDown, journalListener,
                   oplogVisibilityManager, journalFlusher, journalListenerMutex, syncMutex>>
    /\ UNCHANGED <<token, newBound, waitVars, flusherVars, ppc, ccalls, envVars, crashed,
                   sg, lastDurable, completedSyncs, pg, wg>>

\* an increment that is lost
NumSyncsLost == numSyncs

\* _numSyncs++
NumSyncsIncremented == numSyncs + 1

\* _syncMutex.lock(); _numSyncs++; _syncMutex.unlock();
SyncInc(t) ==
    /\ spc[t] = "inc"
    /\ syncMutex = Free
    /\ numSyncs' = NumSyncsIncremented
    /\ spc' = [spc EXCEPT ![t] = "notifyAll"]
    /\ sg' = [sg EXCEPT ![t].incremented = TRUE]
    /\ UNCHANGED <<durable, numWaits, shuttingDown, journalListener,
                   oplogVisibilityManager, journalFlusher, journalListenerMutex,
                   oplogMutex, syncMutex>>
    /\ UNCHANGED <<token, newBound, waitVars, flusherVars, ppc, ccalls, envVars, crashed,
                   lastCallback, lastDurable, completedSyncs, pg, wg>>

\* _syncDoneCV.notify_all(): every thread parked on the condition variable
\* is made runnable
NotifyAll == [w \in Waiters |-> IF wpc[w] = "blocked" THEN "woken" ELSE wpc[w]]

\* the argument of _journalListener->onDurable(token)
OnDurableToken(t) == token[t]

\* _syncDoneCV.notify_all(); _journalListener->onDurable(token); the
\* lock_guard releases _journalListenerMutex; sync() returns to its caller
SyncNotifyAll(t) ==
    /\ spc[t] = "notifyAll"
    /\ wpc' = NotifyAll
    /\ lastDurable' = [lsn |-> journalListener, tok |-> OnDurableToken(t)]
    /\ token' = [token EXCEPT ![t] = NoToken]
    /\ newBound' = [newBound EXCEPT ![t] = Uninit]
    /\ sg' = [sg EXCEPT ![t] = FreshSync]
    /\ journalListenerMutex' = Free
    /\ spc' = [spc EXCEPT ![t] = "idle"]
    /\ completedSyncs' = completedSyncs + 1
    /\ fpc' = IF t = FlusherThread THEN "top" ELSE fpc
    /\ ppc' = IF t = ShutdownThread THEN "store" ELSE ppc
    /\ pg' = IF t = ShutdownThread THEN [pg EXCEPT !.synced = TRUE] ELSE pg
    /\ UNCHANGED <<durable, numSyncs, numWaits, shuttingDown, journalListener,
                   oplogVisibilityManager, journalFlusher, oplogMutex, syncMutex>>
    /\ UNCHANGED <<waitFor, wcalls, flushPending, fShuttingDown, ccalls, envVars,
                   crashed, lastCallback, wg>>

\* a sync() that goes on whether or not _durable is set
CallerSyncUnchecked(c) ==
    /\ spc[c] = "idle"
    /\ ccalls[c] < MaxCalls
    /\ ccalls' = [ccalls EXCEPT ![c] = @ + 1]
    /\ spc' = [spc EXCEPT ![c] = "begin"]
    /\ UNCHANGED <<mgrVars, token, newBound, waitVars, flusherVars, ppc, envVars, crashed,
                   histVars>>

\* a caller thread calls sync(): if (!_durable) return;
CallerSync(c) ==
    /\ spc[c] = "idle"
    /\ ccalls[c] < MaxCalls
    /\ ccalls' = [ccalls EXCEPT ![c] = @ + 1]
    /\ IF durable
         THEN spc' = [spc EXCEPT ![c] = "begin"]
         ELSE UNCHANGED spc
    /\ UNCHANGED <<mgrVars, token, newBound, waitVars, flusherVars, ppc, envVars, crashed,
                   histVars>>

(***************************************************************************)
(* KVDBDurabilityManager::waitUntilDurable, one action per step of w.      *)
(*   "lock"    _numWaits incremented; about to take _syncMutex, set        *)
(*             waitFor and notify the flusher                              *)
(*   "check"   holds _syncMutex; about to evaluate the wait predicate      *)
(*   "prewait" predicate was false; about to park on _syncDoneCV           *)
(*   "blocked" parked on _syncDoneCV, _syncMutex released                  *)
(*   "woken"   made runnable; about to take _syncMutex again               *)
(*   "exit"    the lock is released; the guard's _numWaits-- is next       *)
(***************************************************************************)
\* _numWaits++; if (!_durable) return;
WaitEnter(w) ==
    /\ wpc[w] = "idle"
    /\ wcalls[w] < MaxWaitCalls
    /\ numWaits' = numWaits + 1
    /\ wpc' = [wpc EXCEPT ![w] = IF durable THEN "lock" ELSE "exit"]
    /\ wg' = [wg EXCEPT ![w] = [FreshWait EXCEPT
                 !.inProgress = \E t \in SyncThreads : spc[t] = "flush"]]
    /\ UNCHANGED <<durable, numSyncs, shuttingDown, journalListener,
                   oplogVisibilityManager, journalFlusher, journalListenerMutex,
                   oplogMutex, syncMutex>>
    /\ UNCHANGED <<syncVars, waitFor, wcalls, flusherVars, ppc, ccalls, envVars, crashed,
                   syncHist>>

\* stdx::unique_lock<stdx::mutex> lk(_syncMutex); const auto waitFor =
\* _numSyncs + 1; _journalFlusher->notifyFlusher(): _flushPending = true under
\* _jFlushMutex, then notify_one (the worker holds _jFlushMutex only inside
\* its own steps). After prepareForShutdown() has reset _journalFlusher the
\* call goes through a null unique_ptr: the process dies, or the call does
\* nothing.
WaitLock(w) ==
    /\ wpc[w] = "lock"
    /\ syncMutex = Free
    /\ syncMutex' = w
    /\ waitFor' = [waitFor EXCEPT ![w] = numSyncs + 1]
    /\ \/ /\ journalFlusher = "running"
          /\ flushPending' = TRUE
          /\ UNCHANGED crashed
       \/ /\ journalFlusher = "released"
          /\ crashed' \in BOOLEAN
          /\ UNCHANGED flushPending
    /\ wpc' = [wpc EXCEPT ![w] = "check"]
    /\ UNCHANGED <<durable, numSyncs, numWaits, shuttingDown, journalListener,
                   oplogVisibilityManager, journalFlusher, journalListenerMutex,
                   oplogMutex>>
    /\ UNCHANGED <<syncVars, wcalls, fpc, fShuttingDown, ppc, ccalls, envVars, histVars>>

\* a predicate that compares with the counter as it was on entry
WaitPredicateEarly(w) == (numSyncs + 1 >= waitFor[w]) \/ shuttingDown

\* a predicate that one completed sync() after the recording satisfies
WaitPredicateOneSync(w) == (numSyncs >= waitFor[w]) \/ shuttingDown

\* [&] { return (_numSyncs > waitFor) || _shuttingDown.load(); }
WaitPredicate(w) == (numSyncs > waitFor[w]) \/ shuttingDown

\* _syncDoneCV.wait(lk, pred): the predicate is evaluated holding _syncMutex;
\* when it holds the call returns and lk's destructor releases the mutex
WaitCheck(w) ==
    /\ wpc[w] = "check"
    /\ IF WaitPredicate(w)
         THEN /\ wpc' = [wpc EXCEPT ![w] = "exit"]
              /\ syncMutex' = Free
         ELSE /\ wpc' = [wpc EXCEPT ![w] = "prewait"]
              /\ UNCHANGED syncMutex
    /\ UNCHANGED <<durable, numSyncs, numWaits, shuttingDown, journalListener,
                   oplogVisibilityManager, journalFlusher, journalListenerMutex,
                   oplogMutex>>
    /\ UNCHANGED <<syncVars, waitFor, wcalls, flusherVars, ppc, ccalls, envVars, crashed,
                   histVars>>

\* condition_variable::wait(lk): releases the mutex and parks, atomically
\* with respect to notify_all
WaitBlock(w) ==
    /\ wpc[w] = "prewait"
    /\ wpc' = [wpc EXCEPT ![w] = "blocked"]
    /\ syncMutex' = Free
    /\ UNCHANGED <<durable, numSyncs, numWaits, shuttingDown, journalListener,
                   oplogVisibilityManager, journalFlusher, journalListenerMutex,
                   oplogMutex>>
    /\ UNCHANGED <<syncVars, waitFor, wcalls, flusherVars, ppc, ccalls, envVars, crashed,
                   histVars>>

\* a condition variable may wake a parked thread without a notification
SpuriousWake(w) ==
    /\ wpc[w] = "blocked"
    /\ wpc' = [wpc EXCEPT ![w] = "woken"]
    /\ UNCHANGED <<mgrVars, syncVars, waitFor, wcalls, flusherVars, ppc, ccalls, envVars,
                   crashed, histVars>>

\* the woken thread takes _syncMutex again and re-evaluates the predicate
WaitReacquire(w) ==
    /\ wpc[w] = "woken"
    /\ syncMutex = Free
    /\ syncMutex' = w
    /\ wpc' = [wpc EXCEPT ![w] = "check"]
    /\ UNCHANGED <<durable, numSyncs, numWaits, shuttingDown, journalListener,
                   oplogVisibilityManager, journalFlusher, journalListenerMutex,
                   oplogMutex>>
    /\ UNCHANGED <<syncVars, waitFor, wcalls, flusherVars, ppc, ccalls, envVars, crashed,
                   histVars>>

\* a guard that is dismissed
NumWaitsKept == numWaits

\* [&] { _numWaits--; }
NumWaitsUndone == numWaits - 1

\* auto waitUndo = MakeGuard([&] { _numWaits--; }); runs as the call returns
WaitExit(w) ==
    /\ wpc[w] = "exit"
    /\ numWaits' = NumWaitsUndone
    /\ wpc' = [wpc EXCEPT ![w] = "idle"]
    /\ wcalls' = [wcalls EXCEPT ![w] = @ + 1]
    /\ waitFor' = [waitFor EXCEPT ![w] = 0]
    /\ wg' = [wg EXCEPT ![w] = FreshWait]
    /\ UNCHANGED <<durable, numSyncs, shuttingDown, journalListener,
                   oplogVisibilityManager, journalFlusher, journalListenerMutex,
                   oplogMutex, syncMutex>>
    /\ UNCHANGED <<syncVars, flusherVars, ppc, ccalls, envVars, crashed, syncHist>>

(***************************************************************************)
(* KVDBJournalFlusher::run, the worker thread.                             *)
(*   "top"    at the while (!_shuttingDown.load()) test                    *)
(*   "wait"   in _jFlushCV.wait_until(...)                                 *)
(*   "chk2"   at the if (_shuttingDown.load()) break; after the wait       *)
(*   "sync"   inside _durabilityManager.sync() (see spc[FlusherThread])    *)
(*   "exited" run() has returned                                           *)
(***************************************************************************)
\* _shuttingDown.load() of the flusher's own flag
FlusherStopRequested == fShuttingDown

\* The commit interval can elapse. The model lets it elapse only while
\* numSyncs is below MaxSyncs or while a waiter is parked on _syncDoneCV
\* (the periodic flush is what releases a parked waiter).
TimerMayExpire == numSyncs < MaxSyncs \/ \E w \in Waiters : wpc[w] = "blocked"

\* while (!_shuttingDown.load()) { ...; if (lag_ms < commit_ms) { wait } ...
FlusherLoopTest ==
    /\ fpc = "top"
    /\ \/ /\ FlusherStopRequested
          /\ fpc' = "exited"
       \/ /\ ~FlusherStopRequested
          /\ fpc' = "wait"
       \/ /\ ~FlusherStopRequested
          /\ TimerMayExpire
          /\ fpc' = "chk2"
    /\ UNCHANGED <<mgrVars, syncVars, waitVars, flushPending, fShuttingDown, ppc, ccalls,
                   envVars, crashed, histVars>>

\* a wait that only the shutdown flag ends
FlushRequestIgnored == FlusherStopRequested

\* [&] { return _flushPending || _shuttingDown.load(); }
FlushRequested == flushPending \/ FlusherStopRequested

\* a worker that leaves the flag as it found it
FlushPendingKept == flushPending

\* _flushPending = false;
FlushPendingCleared == FALSE

\* _jFlushCV.wait_until(lk, deadline, [&] { return _flushPending ||
\* _shuttingDown.load(); }); _flushPending = false;
FlusherWait ==
    /\ fpc = "wait"
    /\ \/ FlushRequested
       \/ TimerMayExpire
    /\ flushPending' = FlushPendingCleared
    /\ fpc' = "chk2"
    /\ UNCHANGED <<mgrVars, syncVars, waitVars, fShuttingDown, ppc, ccalls, envVars,
                   crashed, histVars>>

\* if (_shuttingDown.load()) break; ... _durabilityManager.sync();
FlusherCheck ==
    /\ fpc = "chk2"
    /\ IF FlusherStopRequested
         THEN /\ fpc' = "exited"
              /\ UNCHANGED spc
         ELSE /\ fpc' = "sync"
              /\ spc' = [spc EXCEPT ![FlusherThread] = "begin"]
    /\ UNCHANGED <<mgrVars, token, newBound, waitVars, flushPending, fShuttingDown, ppc,
                   ccalls, envVars, crashed, histVars>>

(***************************************************************************)
(* KVDBJournalFlusher::notifyFlusher, called on a flusher that is alive:   *)
(* _flushPending = true under _jFlushMutex, then _jFlushCV.notify_one().   *)
(* The worker holds _jFlushMutex from the return of its wait to the clear  *)
(* of the flag, so the store falls before or after FlusherWait.            *)
(***************************************************************************)
NotifyFlusher ==
    /\ journalFlusher = "running"
    /\ flushPending' = TRUE
    /\ UNCHANGED <<mgrVars, syncVars, waitVars, fpc, fShuttingDown, ppc, ccalls, envVars,
                   crashed, histVars>>

(***************************************************************************)
(* KVDBDurabilityManager::prepareForShutdown, called once.                 *)
(*   "sync"    inside this->sync() (see spc[ShutdownThread])               *)
(*   "store"   about to _shuttingDown.store(true)                          *)
(*   "notify"  about to _syncDoneCV.notify_all()                           *)
(*   "poll"    in while (_numWaits.load()) sleepmillis(1)                  *)
(*   "stopf"   about to call _journalFlusher->shutdown()                   *)
(*   "fnotify" in shutdown(): flag stored, about to notifyFlusher()        *)
(*   "join"    in shutdown(): in wait() for the worker to exit             *)
(*   "done"    _journalFlusher reset; returned                             *)
(***************************************************************************)
PrepareForShutdown ==
    /\ ppc = "idle"
    /\ IF durable
         THEN /\ ppc' = "sync"
              /\ spc' = [spc EXCEPT ![ShutdownThread] = "begin"]
              /\ UNCHANGED pg
         ELSE /\ ppc' = "store"
              /\ pg' = [pg EXCEPT !.synced = TRUE]
              /\ UNCHANGED spc
    /\ UNCHANGED <<mgrVars, token, newBound, waitVars, flusherVars, ccalls, envVars,
                   crashed, sg, lastCallback, lastDurable, completedSyncs, wg>>

\* waitUntilDurable() calls of w that have to return for w to be out of the
\* call it is in now
CallsNeeded(w) == IF wpc[w] = "idle" THEN wcalls[w] ELSE wcalls[w] + 1

\* _shuttingDown.store(true)
ShutdownStore ==
    /\ ppc = "store"
    /\ shuttingDown' = TRUE
    /\ ppc' = "notify"
    /\ pg' = [pg EXCEPT !.flagAfterSync = pg.synced,
                        !.need = [w \in Waiters |-> CallsNeeded(w)]]
    /\ UNCHANGED <<durable, numSyncs, numWaits, journalListener, oplogVisibilityManager,
                   journalFlusher, journalListenerMutex, oplogMutex, syncMutex>>
    /\ UNCHANGED <<syncVars, waitVars, flusherVars, ccalls, envVars, crashed,
                   sg, lastCallback, lastDurable, completedSyncs, wg>>

\* _syncDoneCV.notify_all()
ShutdownNotify ==
    /\ ppc = "notify"
    /\ wpc' = NotifyAll
    /\ ppc' = "poll"
    /\ UNCHANGED <<mgrVars, syncVars, waitFor, wcalls, flusherVars, ccalls, envVars,
                   crashed, histVars>>

\* !_numWaits.load()
WaitersDrained == numWaits = 0

\* while (_numWaits.load()) { sleepmillis(1); }  leaves the loop
ShutdownPoll ==
    /\ ppc = "poll"
    /\ WaitersDrained
    /\ ppc' = "stopf"
    /\ UNCHANGED <<mgrVars, syncVars, waitVars, flusherVars, ccalls, envVars,
                   crashed, histVars>>

\* if (_journalFlusher) { _journalFlusher->shutdown(): _shuttingDown.store(true);
ShutdownStopFlusher ==
    /\ ppc = "stopf"
    /\ IF journalFlusher = "none"
         THEN /\ ppc' = "done"
              /\ UNCHANGED fShuttingDown
         ELSE /\ ppc' = "fnotify"
              /\ fShuttingDown' = TRUE
    /\ UNCHANGED <<mgrVars, syncVars, waitVars, fpc, flushPending, ccalls, envVars,
                   crashed, histVars>>

\* shutdown(): this->notifyFlusher();
ShutdownNotifyFlusher ==
    /\ ppc = "fnotify"
    /\ flushPending' = TRUE
    /\ ppc' = "join"
    /\ UNCHANGED <<mgrVars, syncVars, waitVars, fpc, fShuttingDown, ccalls, envVars,
                   crashed, histVars>>

\* a shutdown() that does not wait for the worker
WorkerNotAwaited == TRUE

\* BackgroundJob::wait() returns once run() has returned
WorkerJoined == fpc = "exited"

\* shutdown(): wait(); then _journalFlusher.reset(); and the return
ShutdownJoin ==
    /\ ppc = "join"
    /\ WorkerJoined
    /\ journalFlusher' = "released"
    /\ ppc' = "done"
    /\ UNCHANGED <<durable, numSyncs, numWaits, shuttingDown, journalListener,
                   oplogVisibilityManager, journalListenerMutex, oplogMutex, syncMutex>>
    /\ UNCHANGED <<syncVars, waitVars, flusherVars, ccalls, envVars, crashed, histVars>>

(***************************************************************************)
(* The key-value store and its native cursors (the HSE library).           *)
(* Keys are 1..MaxKey, all of one length; NullKey is a null key pointer    *)
(* with length 0.                                                          *)
(***************************************************************************)
Keys == 1..MaxKey
NullKey == 0
Absent == 0

\* where a cursor created or sought with no key stands: the start of its
\* scope in its direction
NativeStart(forward) == IF forward THEN 1 ELSE MaxKey

\* the key the next native read returns from position pos: the nearest key
\* of the view at or beyond pos in the cursor's direction, NullKey if none
NativeNext(view, pos, forward) ==
    LET ahead == {k \in Keys : view[k] # Absent /\ (IF forward THEN k >= pos ELSE k <= pos)}
    IN  IF ahead = {} THEN NullKey
        ELSE IF forward THEN CHOOSE k \in ahead : \A j \in ahead : k <= j
        ELSE CHOOSE k \in ahead : \A j \in ahead : k >= j

\* hse_kvs_cursor_seek(cursor, 0, key, klen, &found, &flen): the position
\* it leaves the cursor at
NativeSeek(key, forward) == IF key = NullKey THEN NativeStart(forward) ELSE key

\* the position after the native read returned key
NativeAfter(key, forward) == IF forward THEN key + 1 ELSE key - 1

(***************************************************************************)
(* KvsCursor                                                               *)
(***************************************************************************)
\* KvsCursor::KvsCursor: the members zeroed, then _kvs_cursor_create() gives
\* a native cursor over the store as it is now. stale tells that _kvs_key
\* points into a native cursor that has been destroyed; skipped that the
\* last update() did its skip read.
NewCursor(kvs, forward) ==
    [forward |-> forward, view |-> kvs, pos |-> NativeStart(forward),
     kvs_key |-> NullKey, kvs_val |-> Absent, kvs_seek_key |-> NullKey,
     stale |-> FALSE, skipped |-> FALSE]

NoResult == [eof |-> FALSE, key |-> NullKey, val |-> Absent]

\* KvsCursor::_read_kvs: clears _kvs_seek_key, then hse_kvs_cursor_read(),
\* which leaves the key and value pointers alone at the end of the scope
read_kvs(c) ==
    LET n == NativeNext(c.view, c.pos, c.forward)
    IN  IF n = NullKey
        THEN [c EXCEPT !.kvs_seek_key = NullKey]
        ELSE [c EXCEPT !.kvs_seek_key = NullKey,
                       !.kvs_key = n,
                       !.kvs_val = c.view[n],
                       !.stale = FALSE,
                       !.pos = NativeAfter(n, c.forward)]

\* KvsCursor::read: what the caller gets, c being the cursor before the call
\* and d after it; key and val are assigned only if !eof
read(c, d) ==
    IF NativeNext(c.view, c.pos, c.forward) = NullKey
    THEN [eof |-> TRUE, key |-> NullKey, val |-> Absent]
    ELSE [eof |-> FALSE, key |-> d.kvs_key, val |-> d.kvs_val]

\* KvsCursor::seek
seek(c, key) ==
    LET p == NativeSeek(key, c.forward)
    IN  [c EXCEPT !.pos = p, !.kvs_seek_key = NativeNext(c.view, p, c.forward)]

\* bool lastOpWasRead = !_kvs_seek_key && _kvs_key;
lastOpWasRead(c) == c.kvs_seek_key = NullKey /\ c.kvs_key # NullKey

\* const void* skey = _kvs_seek_key ?: _kvs_key, copied into seekKey: the
\* bytes the copy can hold. Copying through a _kvs_key that points into a
\* destroyed native cursor reads freed memory: any bytes of that length.
seekKey(c) ==
    IF c.kvs_seek_key # NullKey THEN {c.kvs_seek_key}
    ELSE IF c.kvs_key = NullKey THEN {NullKey}
    ELSE IF c.stale THEN Keys
    ELSE {c.kvs_key}

\* update() reads through a dangling _kvs_key
ReadsFreedKey(c) == c.kvs_seek_key = NullKey /\ c.kvs_key # NullKey /\ c.stale

\* skipping whenever the last operation was a read
SkipReadAlways(c, skey, found) == lastOpWasRead(c)

\* if (st.ok() && lastOpWasRead) if (seekKey.len() == _kvs_seek_klen &&
\*     0 == memcmp(seekKey.data(), _kvs_seek_key, _kvs_seek_klen))
SkipRead(c, skey, found) == lastOpWasRead(c) /\ skey = found

\* KvsCursor::update with skey the bytes copied into seekKey: the native
\* cursor is destroyed and created anew over the store kvs, sought to skey,
\* and one key is read and dropped if SkipRead says so
update(c, kvs, skey) ==
    LET created == [c EXCEPT !.view = kvs, !.pos = NativeStart(c.forward)]
        sought == seek(created, skey)
    IN  IF SkipRead(c, skey, sought.kvs_seek_key)
        THEN [read_kvs(sought) EXCEPT !.skipped = TRUE]
        ELSE [sought EXCEPT !.stale = (c.kvs_key # NullKey), !.skipped = FALSE]

NoResume == [on |-> FALSE, after |-> NullKey, view |-> [k \in Keys |-> Absent],
             deleted |-> FALSE, n |-> 0]

\* the store is empty and no cursor is used
StoreClosed ==
    /\ store = [k \in Keys |-> Absent]
    /\ writes = 0
    /\ cur = NewCursor(store, TRUE)
    /\ ref = cur
    /\ res = NoResult
    /\ refRes = NoResult
    /\ lastOp = "create"
    /\ resume = NoResume

\* any store, and two cursors of one direction just created over it
CursorInit ==
    /\ store \in [Keys -> {Absent, 1}]
    /\ writes = 0
    /\ \E forward \in BOOLEAN : cur = NewCursor(store, forward)
    /\ ref = cur
    /\ res = NoResult
    /\ refRes = NoResult
    /\ lastOp = "create"
    /\ resume = NoResume

\* read() on cur
CursorRead ==
    /\ cur' = read_kvs(cur)
    /\ res' = read(cur, cur')
    /\ lastOp' = "read"
    /\ resume' = IF ~resume.on THEN resume
                 ELSE IF res'.eof THEN NoResume
                 ELSE [resume EXCEPT !.after = res'.key,
                                     !.n = IF @ < 2 THEN @ + 1 ELSE @]
    /\ UNCHANGED <<store, writes, ref, refRes>>
    /\ UNCHANGED durVars

\* seek(key) on cur
CursorSeek(key) ==
    /\ cur' = seek(cur, key)
    /\ lastOp' = "seek"
    /\ resume' = NoResume
    /\ UNCHANGED <<store, writes, res, ref, refRes>>
    /\ UNCHANGED durVars

\* update() on cur
CursorUpdate ==
    /\ \E skey \in seekKey(cur) : cur' = update(cur, store, skey)
    /\ IF ReadsFreedKey(cur) THEN crashed' \in BOOLEAN ELSE UNCHANGED crashed
    /\ lastOp' = "update"
    /\ resume' = IF lastOp = "read" /\ ~res.eof
                 THEN [on |-> TRUE, after |-> res.key, view |-> store,
                       deleted |-> (store[res.key] = Absent), n |-> 0]
                 ELSE NoResume
    /\ UNCHANGED <<store, writes, ref, res, refRes>>
    /\ UNCHANGED <<mgrVars, syncVars, waitVars, flusherVars, ppc, ccalls, envVars, histVars,
                   fg>>

\* read() on cur and on ref
PairRead ==
    /\ cur' = read_kvs(cur)
    /\ res' = read(cur, cur')
    /\ ref' = read_kvs(ref)
    /\ refRes' = read(ref, ref')
    /\ lastOp' = "read"
    /\ UNCHANGED <<store, writes, resume>>
    /\ UNCHANGED durVars

\* seek(key) on cur and on ref
PairSeek(key) ==
    /\ cur' = seek(cur, key)
    /\ ref' = seek(ref, key)
    /\ lastOp' = "seek"
    /\ UNCHANGED <<store, writes, res, refRes, resume>>
    /\ UNCHANGED durVars

\* another client puts key k, with a value other than the one the store
\* starts with
StorePut(k) ==
    /\ writes < MaxWrites
    /\ store' = [store EXCEPT ![k] = 2]
    /\ writes' = writes + 1
    /\ UNCHANGED <<cur, ref, res, refRes, lastOp, resume>>
    /\ UNCHANGED durVars

\* another client deletes key k
StoreDelete(k) ==
    /\ writes < MaxWrites
    /\ store[k] # Absent
    /\ store' = [store EXCEPT ![k] = Absent]
    /\ writes' = writes + 1
    /\ UNCHANGED <<cur, ref, res, refRes, lastOp, resume>>
    /\ UNCHANGED durVars

(***************************************************************************)
(* The native cursor of a KvsCursor: _kvs_cursor_create(), the destroy     *)
(* calls of update() and ~KvsCursor(). kpc tells where the object is:      *)
(* "ctor" and "update" inside the retry loop of _kvs_cursor_create(),      *)
(* called from the constructor or from update(); "ready" between calls;    *)
(* "ctorThrew" and "updateThrew" once the KVDBException has left the       *)
(* constructor or update(); "destroyed" after the destructor.              *)
(***************************************************************************)
Handles == 1..MaxHandles
NullHandle == 0
EAGAIN == "EAGAIN"

\* what hse_kvs_cursor_create() returns: success, EAGAIN or another error
CreateResults == {"ok", EAGAIN, "ENOMEM"}

\* what a failing hse_kvs_cursor_create() leaves in the handle it was given
\* the address of: the old value, or null
FailedCreateLeaves(c) == {c, NullHandle}

\* ::hse_kvs_cursor_destroy(h)
NativeDestroy(h) ==
    IF h = NullHandle THEN destroyed ELSE [destroyed EXCEPT ![h] = @ + 1]

\* int RETRY_FIB_SEQ_EAGAIN[] = {1, 2, 3, 5, 8, 13};
RETRY_FIB_SEQ_EAGAIN == <<1, 2, 3, 5, 8, 13>>
\* int FIB_LEN = 6;
FIB_LEN == 6

\* a schedule that starts over when the sequence is used up
SleepTimeWrapped(r) == RETRY_FIB_SEQ_EAGAIN[(r % FIB_LEN) + 1]

\* the sleepTime chosen at the top of the loop when retries is r (C arrays
\* count from 0, sequences from 1)
SleepTime(r) ==
    IF r < FIB_LEN
    THEN RETRY_FIB_SEQ_EAGAIN[(r % FIB_LEN) + 1]
    ELSE RETRY_FIB_SEQ_EAGAIN[(FIB_LEN - 1) + 1]

\* whether the top of the loop logs the warning when retries is r
Warns(r) == ~(r < FIB_LEN) /\ r % 20 = 0

\* no sleep_for() yet in this _kvs_cursor_create()
NoSleep == [after |-> -1, ms |-> 0]

\* unsigned long long sleepTime = 0; nothing slept or logged
BackoffInit == sleepTime = 0 /\ slept = NoSleep /\ warned = {}

\* the top of the loop: sleepTime is chosen and the warning logged
LoopTop ==
    /\ sleepTime' = SleepTime(retries)
    /\ warned' = IF Warns(retries) THEN warned \cup {retries} ELSE warned

\* a KvsCursor whose constructor has returned with its first native cursor
HandleOpen ==
    /\ cursor = 1
    /\ kpc = "ready"
    /\ retries = 0
    /\ issued = 1
    /\ destroyed = [h \in Handles |-> 0]
    /\ attempts = 1
    /\ lastSt = "ok"
    /\ eagains = 0
    /\ eagainLimit = MaxEagain
    /\ sleepTime = SleepTime(0) /\ slept = NoSleep /\ warned = {}

\* KvsCursor::KvsCursor has zeroed the members and calls _kvs_cursor_create()
HandleCtor ==
    /\ cursor = NullHandle
    /\ kpc = "ctor"
    /\ retries = 0
    /\ issued = 0
    /\ destroyed = [h \in Handles |-> 0]
    /\ attempts = 0
    /\ lastSt = "none"
    /\ eagains = 0
    /\ BackoffInit

\* the constructor's call over a store that gives few EAGAIN results
HandleInit == HandleCtor /\ eagainLimit = MaxEagain

InCreate == kpc \in {"ctor", "update"}

\* every result is taken for fatal
TransientNever(err) == FALSE

\* if (st.getErrno() != EAGAIN) throw KVDBException(...)
Transient(err) == err = EAGAIN

\* an iteration of the loop of _kvs_cursor_create() in which the native call
\* succeeds: break, and the constructor returns or update() goes on to seek
\* and skip
CreateOk ==
    /\ InCreate
    /\ issued < MaxHandles
    /\ issued' = issued + 1
    /\ cursor' = issued + 1
    /\ attempts' = attempts + 1
    /\ lastSt' = "ok"
    /\ kpc' = "ready"
    /\ LoopTop
    /\ UNCHANGED <<retries, destroyed, eagains, eagainLimit, slept>>
    /\ IF kpc = "update" THEN CursorUpdate ELSE UNCHANGED <<durVars, curVars>>
    /\ UNCHANGED <<bufVars, oplogVars>>

\* an iteration in which the native call fails with err: on EAGAIN sleep,
\* retries++ and go round again, on anything else throw
CreateFail(err) ==
    /\ InCreate
    /\ err = EAGAIN => eagains < eagainLimit
    /\ eagains' = IF err = EAGAIN THEN eagains + 1 ELSE eagains
    /\ cursor' \in FailedCreateLeaves(cursor)
    /\ attempts' = attempts + 1
    /\ lastSt' = err
    /\ LoopTop
    /\ IF Transient(err)
       THEN /\ slept' = [after |-> retries, ms |-> sleepTime']
            /\ retries' = retries + 1 /\ kpc' = kpc
       ELSE /\ UNCHANGED slept
            /\ retries' = retries
            /\ kpc' = (IF kpc = "ctor" THEN "ctorThrew" ELSE "updateThrew")
    /\ UNCHANGED <<issued, destroyed, eagainLimit>>
    /\ UNCHANGED <<durVars, curVars, bufVars, oplogVars>>

\* update() up to its call of _kvs_cursor_create(): the key is copied out
\* (CursorUpdate tells what the copy holds) and the native cursor destroyed
UpdateBegin ==
    /\ kpc = "ready"
    /\ issued < MaxHandles
    /\ destroyed' = NativeDestroy(cursor)
    /\ kpc' = "update"
    /\ retries' = 0
    /\ attempts' = 0
    /\ sleepTime' = 0 /\ slept' = NoSleep /\ warned' = {}
    /\ UNCHANGED <<cursor, issued, lastSt, eagains, eagainLimit>>
    /\ UNCHANGED <<durVars, curVars, bufVars, oplogVars>>

\* KvsCursor::~KvsCursor, of an object whose constructor has returned
Destructor ==
    /\ kpc \in {"ready", "updateThrew"}
    /\ destroyed' = NativeDestroy(cursor)
    /\ kpc' = "destroyed"
    /\ UNCHANGED <<cursor, retries, issued, attempts, lastSt, eagains, eagainLimit,
                   backoffVars>>
    /\ UNCHANGED <<durVars, curVars, bufVars, oplogVars>>

(***************************************************************************)
(* KVDBData (hse.h): a byte buffer that either borrows the caller's memory *)
(* (_data, _bufLen) or owns an allocation (_ownedData, _allocLen), with    *)
(* _len valid bytes. Pointers are modelled by the name of the memory they  *)
(* point to the start of: the caller's array, the buffer of a std::string  *)
(* temporary that is gone, or an allocation. An allocation lives as long   *)
(* as a shared_ptr of b1 or b2 holds it.                                   *)
(***************************************************************************)
Bytes == 0..MaxByte
ByteSeqs == UNION {[1..k -> Bytes] : k \in 0..MaxLen}

\* unsigned long arithmetic is modulo 2^WordBits (the model's lengths are
\* scaled to this width)
WordBits == 3
ULong == 2 ^ WordBits
Add(a, b) == (a + b) % ULong
Sub(a, b) == (a - b) % ULong

NullPtr == "null"
ExtPtr == "ext"
TmpPtr == "tmp"
HeapIds == {"h1", "h2", "h3"}

EMSGSIZE == "EMSGSIZE"

\* KVDBData(): the members' default initialisers
EmptyBuf == [data |-> NullPtr, bufLen |-> 0, len |-> 0,
             owned |-> FALSE, ownedData |-> NullPtr, allocLen |-> 0]

\* nothing has been compared
NoOrder == [lhs |-> <<>>, rhs |-> <<>>, done |-> FALSE, lt |-> FALSE, gt |-> FALSE, eq |-> FALSE]

\* two default-constructed objects next to a caller's array of any bytes
BufInit ==
    /\ ext \in ByteSeqs
    /\ heap = [r \in HeapIds |-> <<>>]
    /\ buf = [i \in {1, 2} |-> EmptyBuf]
    /\ bst = "none"
    /\ oob = FALSE
    /\ ord = NoOrder

\* no KVDBData is in use
NoBuffers == BufInit /\ ext = <<>>

\* the memory pointer p points to the start of
Region(p) == IF p = ExtPtr THEN ext ELSE IF p \in HeapIds THEN heap[p] ELSE <<>>

\* an access of n bytes at p + off leaves the memory p points into
Outside(p, off, n) == n > 0 /\ (p \notin HeapIds \cup {ExtPtr} \/ off + n > Len(Region(p)))

\* the n bytes read at p; what lies beyond the memory is not known
Loaded(p, n) == [i \in 1..n |-> IF i <= Len(Region(p)) THEN Region(p)[i] ELSE Uninit]

\* memcpy(dst + off, s, Len(s)) on the memory with bytes mem: the bytes that
\* fall inside it
Stored(mem, off, s) ==
    [i \in 1..Len(mem) |-> IF i > off /\ i <= off + Len(s) THEN s[i - off] ELSE mem[i]]

\* new uint8_t[n]
Alloc(n) == [i \in 1..n |-> Uninit]

\* the allocation a new[] of the step gives. Between steps the allocations
\* are named after the objects whose shared_ptr holds them: h1 is b1's, h2
\* is b2's unless b2 shares b1's
Fresh == "h3"

Named(bs, i) ==
    IF bs[i].ownedData = NullPtr THEN NullPtr
    ELSE IF i = 1 \/ bs[2].ownedData = bs[1].ownedData THEN "h1"
    ELSE "h2"

\* the objects bs with their allocations named so
Holders(bs) == [i \in {1, 2} |-> [bs[i] EXCEPT !.ownedData = Named(bs, i)]]

\* shared_ptr: the allocations h that the objects bs still hold, named so;
\* an allocation is deleted when the last object lets go of it
Release(h, bs) ==
    [r \in HeapIds |->
        IF \E i \in {1, 2} : Named(bs, i) = r
        THEN h[bs[CHOOSE i \in {1, 2} : Named(bs, i) = r].ownedData]
        ELSE <<>>]

\* uint8_t* data() const
data(b) == IF b.owned THEN b.ownedData ELSE b.data

\* the valid bytes: len() bytes at data()
bytes(b) == Loaded(data(b), b.len)

\* strlen((char*)cStr) of the caller's array
HasNul(s) == \E i \in 1..Len(s) : s[i] = 0
strlen(s) == (CHOOSE i \in 1..Len(s) : s[i] = 0 /\ \A j \in 1..(i - 1) : s[j] # 0) - 1

\* KVDBData(uint8_t* cStr)
CStrView == [EmptyBuf EXCEPT !.data = ExtPtr, !.len = Add(strlen(ext), 1)]

\* KVDBData(const uint8_t* cStr) : KVDBData{(char*)cStr}, which is
\* KVDBData(const string&) of a temporary std::string
ConstCStrView == [EmptyBuf EXCEPT !.data = TmpPtr, !.bufLen = strlen(ext), !.len = strlen(ext)]

\* KVDBData(uint8_t* str, unsigned long l), and KVDBData(mem, len, false)
PtrLenView(l) == [EmptyBuf EXCEPT !.data = ExtPtr, !.bufLen = l, !.len = l]

\* KVDBData(const string& s), s holding the caller's bytes
StringView == [EmptyBuf EXCEPT !.data = ExtPtr, !.bufLen = Len(ext), !.len = Len(ext)]

\* the borrowed views of the caller's array
Views ==
    {PtrLenView(l) : l \in 0..Len(ext)} \cup {StringView}
        \cup (IF HasNul(ext) THEN {CStrView, ConstCStrView} ELSE {})

\* the step's effect: the objects bs over the allocations h with the
\* caller's array e; o tells that a memcpy of the step left its memory,
\* after which the process may be gone
Effect(bs, h, e, o) ==
    /\ buf' = Holders(bs)
    /\ heap' = Release(h, bs)
    /\ ext' = e
    /\ oob' = (oob \/ o)
    /\ crashed' \in (IF o THEN BOOLEAN ELSE {crashed})
    /\ UNCHANGED ord
    /\ UNCHANGED <<mgrVars, syncVars, waitVars, flusherVars, ppc, ccalls, envVars, histVars,
                   fg>>
    /\ UNCHANGED <<curVars, handleVars, oplogVars>>

\* b_i is constructed as a view of the caller's array
Construct(i) ==
    /\ \E v \in Views : Effect([buf EXCEPT ![i] = v], heap, ext, FALSE)
    /\ UNCHANGED bst

\* KVDBData createOwned(unsigned long len) on the object b
createOwned(b, r, l) == [b EXCEPT !.allocLen = l, !.ownedData = r, !.owned = TRUE, !.len = 0]

\* KVDBData(mem, len, true): createOwned(len), memcpy(_ownedData.get(), mem,
\* len), _len = len
ConstructOwned(i, l) ==
    /\ Effect([buf EXCEPT ![i] = [createOwned(EmptyBuf, Fresh, l) EXCEPT !.len = l]],
              [heap EXCEPT ![Fresh] = Stored(Alloc(l), 0, Loaded(ExtPtr, l))],
              ext, Outside(ExtPtr, 0, l))
    /\ UNCHANGED bst

\* b_i.createOwned(l)
CreateOwned(i, l) ==
    /\ Effect([buf EXCEPT ![i] = createOwned(buf[i], Fresh, l)],
              [heap EXCEPT ![Fresh] = Alloc(l)], ext, FALSE)
    /\ UNCHANGED bst

\* if (!_owned) in makeOwned()
MustAllocate(b) == ~b.owned

\* KVDBData makeOwned() on the object b, r being the allocation new gives:
\* the object after it
makeOwned(b, r) ==
    IF MustAllocate(b)
    THEN [b EXCEPT !.allocLen = b.bufLen, !.ownedData = r, !.owned = TRUE]
    ELSE b

\* the allocations after makeOwned() on b: nData = new uint8_t[_bufLen],
\* memcpy(nData, _data, _len)
makeOwnedHeap(b, r) ==
    IF MustAllocate(b)
    THEN [heap EXCEPT ![r] = Stored(Alloc(b.bufLen), 0, Loaded(b.data, b.len))]
    ELSE heap

\* that memcpy reads beyond _data's memory or writes beyond the allocation
makeOwnedOutside(b) ==
    MustAllocate(b) /\ (Outside(b.data, 0, b.len) \/ b.len > b.bufLen)

\* b_i.makeOwned()
MakeOwned(i) ==
    /\ Effect([buf EXCEPT ![i] = makeOwned(buf[i], Fresh)],
              makeOwnedHeap(buf[i], Fresh), ext, makeOwnedOutside(buf[i]))
    /\ UNCHANGED bst

\* b_j = b_i.clone(): KVDBData(*this).makeOwned(), the copy sharing what
\* *this holds
Clone(i, j) ==
    /\ Effect([buf EXCEPT ![j] = makeOwned(buf[i], Fresh)],
              makeOwnedHeap(buf[i], Fresh), ext, makeOwnedOutside(buf[i]))
    /\ UNCHANGED bst

\* b_i.setReadBuf(buf, l), buf being the caller's array
SetReadBuf(i, l) ==
    /\ Effect([buf EXCEPT ![i] = [@ EXCEPT !.data = ExtPtr, !.bufLen = l, !.len = 0,
                                           !.owned = FALSE, !.allocLen = l]],
              heap, ext, FALSE)
    /\ UNCHANGED bst

\* b_i.adjustLen(n)
AdjustLen(i, n) ==
    /\ Effect([buf EXCEPT ![i] = [@ EXCEPT !.len = Add(@, n)]], heap, ext, FALSE)
    /\ UNCHANGED bst

\* b_i.destroy()
Destroy(i) ==
    /\ Effect([buf EXCEPT ![i] = EmptyBuf], heap, ext, FALSE)
    /\ UNCHANGED bst

\* _allocLen - _len, _bufLen - _len
Room(b) == IF b.owned THEN Sub(b.allocLen, b.len) ELSE Sub(b.bufLen, b.len)

\* Status copy(const uint8_t* str, unsigned long len) on b_i, str holding
\* the len bytes s
Copy(i, s) ==
    LET b == buf[i]
        p == data(b)
    IN  IF Len(s) <= Room(b)
        THEN /\ Effect([buf EXCEPT ![i] = [@ EXCEPT !.len = Add(@, Len(s))]],
                       IF p \in HeapIds
                       THEN [heap EXCEPT ![p] = Stored(@, b.len, s)] ELSE heap,
                       IF p = ExtPtr THEN Stored(ext, b.len, s) ELSE ext,
                       Outside(p, b.len, Len(s)))
             /\ bst' = "ok"
        ELSE /\ Effect(buf, heap, ext, FALSE)
             /\ bst' = EMSGSIZE

(***************************************************************************)
(* operator< and operator== of KVDBData, on the valid bytes of the two     *)
(* buffers: len() bytes at data().                                         *)
(***************************************************************************)
\* the bytes 'a', 'b', 'c'
Letters == 97..99
Words == UNION {[1..k -> Letters] : k \in 0..MaxWord}

min(x, y) == IF x < y THEN x ELSE y

\* int memcmp(s1, s2, n): 0 if the first n bytes agree, else the difference
\* of the first two bytes that differ, taken as unsigned char
memcmp(s1, s2, n) ==
    LET differ == {i \in 1..n : s1[i] # s2[i]}
        first == CHOOSE i \in differ : \A j \in differ : i <= j
    IN  IF differ = {} THEN 0 ELSE s1[first] - s2[first]

\* the shorter or equally long buffer comes first
NotLonger(lLen, rLen) == lLen <= rLen

\* if (lLen < rLen) return true; else return false;
Shorter(lLen, rLen) == IF lLen < rLen THEN TRUE ELSE FALSE

\* static bool operator<(const KVDBData& lhs, const KVDBData& rhs)
Less(lhs, rhs) ==
    LET lLen == Len(lhs)
        rLen == Len(rhs)
        minLen == min(lLen, rLen)
        cmp == memcmp(lhs, rhs, minLen)
    IN  IF 0 = cmp THEN Shorter(lLen, rLen) ELSE 0 > cmp

\* static inline bool operator==(const KVDBData& lhs, const KVDBData& rhs)
Equal(lhs, rhs) == Len(lhs) = Len(rhs) /\ memcmp(lhs, rhs, Len(rhs)) = 0

\* lhs < rhs, rhs < lhs and lhs == rhs are evaluated
Compare ==
    /\ ~ord.done
    /\ ord' = [ord EXCEPT !.done = TRUE,
                          !.lt = Less(ord.lhs, ord.rhs),
                          !.gt = Less(ord.rhs, ord.lhs),
                          !.eq = Equal(ord.lhs, ord.rhs)]
    /\ UNCHANGED <<ext, heap, buf, bst, oob>>
    /\ UNCHANGED <<durVars, curVars, handleVars, oplogVars>>

(***************************************************************************)
(* KVDBEngine::initOplogStoreThread (hse_record_store_mongod.cpp) and the  *)
(* registry _backgroundThreadNamespaces. A namespace is the sequence of    *)
(* the dot-separated parts of its string; NamespaceString(ns) keeps the    *)
(* string, and the std::set compares namespaces by it. ipc of a caller:    *)
(*   "idle"   not in a call                                                *)
(*   "lock"   passed both tests; about to take _backgroundThreadMutex      *)
(*   "count"  holds the mutex; about to test count(nss)                    *)
(*   "start"  count(nss) was 0; about to start the thread and insert       *)
(***************************************************************************)
InitCallers == {"i1", "i2"}

Namespaces ==
    {<<"local", "oplog", "rs">>, <<"local", "oplog", "$main">>,
     <<"test", "oplog", "rs">>, <<"local", "oplog">>}

\* NamespaceString::oplog(ns): the string starts with "local.oplog."
IsOplog(ns) == Len(ns) >= 3 /\ ns[1] = "local" /\ ns[2] = "oplog"

NoNamespace == <<>>
NoReturn == "none"

\* the value a call returned, as iret records it
Returned(b) == IF b THEN "true" ELSE "false"

\* nothing registered, no thread started, nobody in a call
RegistryInit ==
    /\ backgroundThreadNamespaces = {}
    /\ backgroundThreadMutex = Free
    /\ repair \in BOOLEAN
    /\ started = [ns \in Namespaces |-> 0]
    /\ ipc = [c \in InitCallers |-> "idle"]
    /\ ins = [c \in InitCallers |-> NoNamespace]
    /\ iret = [c \in InitCallers |-> NoReturn]
    /\ icalls = [c \in InitCallers |-> 0]

\* the registry of a server that is not in repair mode
RegistryIdle == RegistryInit /\ ~repair

\* a caller that goes on without the mutex
RegistryLockSkipped == TRUE

\* stdx::lock_guard<stdx::mutex> lock(_backgroundThreadMutex)
RegistryLockAvailable == backgroundThreadMutex = Free

\* the call begins: if (!NamespaceString::oplog(ns)) return false;
\* if (storageGlobalParams.repair) return false;
InitOplogCall(c, ns) ==
    /\ ipc[c] = "idle"
    /\ icalls[c] < MaxInitCalls
    /\ ins' = [ins EXCEPT ![c] = ns]
    /\ IF ~IsOplog(ns) \/ repair
         THEN /\ iret' = [iret EXCEPT ![c] = Returned(FALSE)]
              /\ icalls' = [icalls EXCEPT ![c] = @ + 1]
              /\ UNCHANGED ipc
         ELSE /\ ipc' = [ipc EXCEPT ![c] = "lock"]
              /\ iret' = [iret EXCEPT ![c] = NoReturn]
              /\ UNCHANGED icalls
    /\ UNCHANGED <<backgroundThreadNamespaces, backgroundThreadMutex, repair, started>>
    /\ UNCHANGED <<durVars, curVars, handleVars, bufVars>>

\* lock_guard lock(_backgroundThreadMutex); NamespaceString nss(ns);
InitOplogLock(c) ==
    /\ ipc[c] = "lock"
    /\ RegistryLockAvailable
    /\ backgroundThreadMutex' = c
    /\ ipc' = [ipc EXCEPT ![c] = "count"]
    /\ UNCHANGED <<backgroundThreadNamespaces, repair, started, ins, iret, icalls>>
    /\ UNCHANGED <<durVars, curVars, handleVars, bufVars>>

\* the lock_guard's destructor: the mutex is released if c holds it
RegistryUnlock(c) == IF backgroundThreadMutex = c THEN Free ELSE backgroundThreadMutex

\* if (_backgroundThreadNamespaces.count(nss)) { log() } and return true,
\* or the else branch is entered
InitOplogCount(c) ==
    /\ ipc[c] = "count"
    /\ IF ins[c] \in backgroundThreadNamespaces
         THEN /\ ipc' = [ipc EXCEPT ![c] = "idle"]
              /\ iret' = [iret EXCEPT ![c] = Returned(TRUE)]
              /\ icalls' = [icalls EXCEPT ![c] = @ + 1]
              /\ backgroundThreadMutex' = RegistryUnlock(c)
         ELSE /\ ipc' = [ipc EXCEPT ![c] = "start"]
              /\ UNCHANGED <<iret, icalls, backgroundThreadMutex>>
    /\ UNCHANGED <<backgroundThreadNamespaces, repair, started, ins>>
    /\ UNCHANGED <<durVars, curVars, handleVars, bufVars>>

\* backgroundThread = new KVDBOplogStoreThread(nss); backgroundThread->go();
\* _backgroundThreadNamespaces.insert(nss); return true;
InitOplogStart(c) ==
    /\ ipc[c] = "start"
    /\ started' = [started EXCEPT ![ins[c]] = @ + 1]
    /\ backgroundThreadNamespaces' = backgroundThreadNamespaces \cup {ins[c]}
    /\ backgroundThreadMutex' = RegistryUnlock(c)
    /\ ipc' = [ipc EXCEPT ![c] = "idle"]
    /\ iret' = [iret EXCEPT ![c] = Returned(TRUE)]
    /\ icalls' = [icalls EXCEPT ![c] = @ + 1]
    /\ UNCHANGED <<repair, ins>>
    /\ UNCHANGED <<durVars, curVars, handleVars, bufVars>>

(***************************************************************************)
(* The durability manager and its threads.                                 *)
(***************************************************************************)
SyncStep(t) ==
    \/ SyncBegin(t)
    \/ SyncFlushIssue(t)
    \/ SyncFlushReturn(t)
    \/ SyncCallback(t)
    \/ SyncInc(t)
    \/ SyncNotifyAll(t)

WaitStep(w) ==
    \/ WaitLock(w)
    \/ WaitCheck(w)
    \/ WaitBlock(w)
    \/ WaitReacquire(w)
    \/ WaitExit(w)

FlusherStep == FlusherLoopTest \/ FlusherWait \/ FlusherCheck

ShutdownStep ==
    \/ ShutdownStore
    \/ ShutdownNotify
    \/ ShutdownPoll
    \/ ShutdownStopFlusher
    \/ ShutdownNotifyFlusher
    \/ ShutdownJoin

\* The durability manager over a store that no cursor is open on.
Init == DurInit /\ RegistryIdle /\ StoreClosed /\ HandleOpen /\ NoBuffers

\* a step of the durability manager's threads: the process has not crashed
\* and the store and its cursors are left alone
Running(A) == ~crashed /\ UNCHANGED <<curVars, handleVars, bufVars, oplogVars, fg>> /\ A

\* The whole life of one durability manager: one thread calling sync(), a
\* thread calling waitUntilDurable(), the flusher's worker and the thread
\* that calls prepareForShutdown(). The collaborators stay as constructed.
LifeCallers == {"c1"}

LifeNext ==
    \/ \E c \in LifeCallers : Running(CallerSync(c))
    \/ \E t \in SyncThreads : Running(SyncStep(t))
    \/ \E w \in Waiters : Running(WaitEnter(w))
    \/ \E w \in Waiters : Running(WaitStep(w))
    \/ \E w \in Waiters : Running(SpuriousWake(w))
    \/ Running(FlusherStep)
    \/ Running(PrepareForShutdown)
    \/ Running(ShutdownStep)

Next == LifeNext

Spec == Init /\ [][Next]_vars

\* Scheduling: a thread that can take a step eventually takes one, and a
\* thread that is repeatedly able to take a mutex eventually gets it; the
\* worker's timed wait eventually times out. Calls are not forced to start,
\* and a spurious wake-up is never owed. A crashed process takes no step.
Fairness ==
    /\ \A t \in {FlusherThread, ShutdownThread} : SF_vars(Running(SyncStep(t)))
    /\ \A w \in Waiters : SF_vars(Running(WaitStep(w)))
    /\ SF_vars(Running(FlusherStep))
    /\ WF_vars(Running(ShutdownStep))

\* Shutdown against a waiting thread and the worker alone: no other thread
\* calls sync(), and no wake-up comes without a notification.
ShutdownNext ==
    \/ \E t \in {FlusherThread, ShutdownThread} : Running(SyncStep(t))
    \/ \E w \in Waiters : Running(WaitEnter(w))
    \/ \E w \in Waiters : Running(WaitStep(w))
    \/ Running(FlusherStep)
    \/ Running(PrepareForShutdown)
    \/ Running(ShutdownStep)

SpecFair == Init /\ [][ShutdownNext]_vars /\ Fairness

\* sync() against its collaborators: concurrent callers and the flusher's
\* worker, while listeners and visibility managers are swapped and the
\* oplog grows.
SyncNext ==
    \/ \E jl \in Listeners : Running(SetJournalListener(jl))
    \/ \E m \in Managers \cup {NoManager} : Running(SetOplogVisibilityManager(m))
    \/ \E m \in Managers : Running(AdvanceBoundary(m))
    \/ \E c \in Callers : Running(CallerSync(c))
    \/ \E t \in SyncThreads : Running(SyncStep(t))
    \/ Running(FlusherStep)

SpecSync == Init /\ [][SyncNext]_vars

\* The flusher against its clients: threads call notifyFlusher() while the
\* worker runs its loop and prepareForShutdown() stops it. Each step also
\* keeps the account fg of the calls against the worker's wakes and syncs.
Flushing(A) == ~crashed /\ UNCHANGED <<curVars, handleVars, bufVars, oplogVars>> /\ A

\* fg after one more notifyFlusher() call
Noted == [fg EXCEPT !.total = @ + 1, !.notes = @ + 1,
                    !.waiting = IF fpc = "wait" THEN @ + 1 ELSE @,
                    !.owed = @ \/ ~fShuttingDown,
                    !.late = IF spc[FlusherThread] \in {"flush", "callback", "inc", "notifyAll"}
                             THEN @ + 1 ELSE @]

ClientNotify == fg.total < MaxNotes /\ Flushing(NotifyFlusher) /\ fg' = Noted

\* the worker starts a turn of its loop
WorkerLoopTest == Flushing(FlusherLoopTest) /\ fg' = [fg EXCEPT !.woke = 0, !.syncs = 0]

\* the worker's wait returns and the flag is cleared
WorkerWake ==
    /\ Flushing(FlusherWait)
    /\ fg' = [fg EXCEPT !.woke = fg.waiting, !.notes = 0, !.waiting = 0]

\* the worker tests its shutdown flag and calls sync() or leaves
WorkerCheck ==
    /\ Flushing(FlusherCheck)
    /\ fg' = [fg EXCEPT !.syncs = IF FlusherStopRequested THEN @ ELSE @ + 1]

\* a step of the worker's sync(): its kvdb_sync() call follows every
\* notifyFlusher() call made so far
WorkerSync ==
    /\ Flushing(SyncStep(FlusherThread))
    /\ fg' = IF spc[FlusherThread] = "issue"
               THEN [fg EXCEPT !.owed = FALSE, !.late = 0, !.served = fg.late]
               ELSE fg

ShutdownSync == Running(SyncStep(ShutdownThread))

\* shutdown() calls notifyFlusher() itself
ShutdownNotes == Flushing(ShutdownNotifyFlusher) /\ fg' = Noted

ShutdownOther ==
    Running(ShutdownStore \/ ShutdownNotify \/ ShutdownPoll \/ ShutdownStopFlusher
            \/ ShutdownJoin)

FlusherNext ==
    \/ ClientNotify
    \/ WorkerLoopTest
    \/ WorkerWake
    \/ WorkerCheck
    \/ WorkerSync
    \/ Running(PrepareForShutdown)
    \/ ShutdownSync
    \/ ShutdownNotes
    \/ ShutdownOther

\* The worker and the thread in prepareForShutdown() keep running and get
\* the mutexes they ask for; clients are not forced to call.
FlusherFairness ==
    /\ WF_vars(WorkerLoopTest) /\ WF_vars(WorkerWake) /\ WF_vars(WorkerCheck)
    /\ SF_vars(WorkerSync) /\ SF_vars(ShutdownSync)
    /\ WF_vars(ShutdownNotes) /\ WF_vars(ShutdownOther)

\* a durable manager: the flusher exists and its worker runs
InitFlusher == Init /\ durable

SpecFlusher == InitFlusher /\ [][FlusherNext]_vars /\ FlusherFairness

\* One cursor read, sought and updated while other clients write to the
\* store; the durability manager is non-durable and idle.
InitCursor == DurInit /\ ~durable /\ RegistryIdle /\ CursorInit /\ HandleOpen /\ NoBuffers

\* a call on the KvsCursor or the store that is not followed down to the
\* native handle
Opened(A) == ~crashed /\ UNCHANGED <<handleVars, bufVars, oplogVars>> /\ A

CursorNext ==
    \/ Opened(CursorRead)
    \/ \E key \in Keys \cup {NullKey} : Opened(CursorSeek(key))
    \/ Opened(CursorUpdate)
    \/ \E k \in Keys : Opened(StorePut(k))
    \/ \E k \in Keys : Opened(StoreDelete(k))

SpecCursor == InitCursor /\ [][CursorNext]_vars

\* Two cursors over a store that does not change: both get the same read()
\* and seek() calls, one of them update() calls in between.
PairNext ==
    \/ Opened(PairRead)
    \/ \E key \in Keys \cup {NullKey} : Opened(PairSeek(key))
    \/ Opened(CursorUpdate)

SpecPair == InitCursor /\ [][PairNext]_vars

\* The life of one KvsCursor from its constructor to its destructor, over a
\* store holding every key that gives EAGAIN and other errors when asked for
\* a native cursor.
InitCreate ==
    /\ DurInit /\ ~durable /\ RegistryIdle
    /\ CursorInit /\ (\A k \in Keys : store[k] # Absent)
    /\ HandleInit /\ NoBuffers

\* a call on a KvsCursor that is constructed and not inside update()
Ready(A) == kpc = "ready" /\ Opened(A)

\* one iteration of the loop of _kvs_cursor_create()
CreateStep == ~crashed /\ (CreateOk \/ \E err \in CreateResults \ {"ok"} : CreateFail(err))

CreateNext ==
    \/ ~crashed /\ CreateOk
    \/ \E err \in CreateResults \ {"ok"} : ~crashed /\ CreateFail(err)
    \/ ~crashed /\ UpdateBegin
    \/ ~crashed /\ Destructor
    \/ Ready(CursorRead)
    \/ \E key \in Keys \cup {NullKey} : Ready(CursorSeek(key))

\* the thread inside _kvs_cursor_create() keeps running
SpecCreate == InitCreate /\ [][CreateNext]_vars /\ WF_vars(CreateStep)

\* The retry loop of _kvs_cursor_create() over a store that goes on giving
\* EAGAIN: the constructor's call and the calls of update().
InitBackoff ==
    /\ DurInit /\ ~durable /\ RegistryIdle
    /\ CursorInit /\ (\A k \in Keys : store[k] # Absent)
    /\ HandleCtor /\ eagainLimit = MaxRetry
    /\ NoBuffers

BackoffNext ==
    \/ ~crashed /\ CreateOk
    \/ \E err \in CreateResults \ {"ok"} : ~crashed /\ CreateFail(err)
    \/ ~crashed /\ UpdateBegin
    \/ ~crashed /\ Destructor

SpecBackoff == InitBackoff /\ [][BackoffNext]_vars

\* Threads call initOplogStoreThread() at the same time, for oplog and
\* other namespaces, in a server that is or is not in repair mode.
InitOplog ==
    /\ DurInit /\ ~durable /\ RegistryInit
    /\ StoreClosed /\ HandleOpen /\ NoBuffers

OplogNext ==
    \/ \E c \in InitCallers, ns \in Namespaces : ~crashed /\ InitOplogCall(c, ns)
    \/ \E c \in InitCallers : ~crashed /\ InitOplogLock(c)
    \/ \E c \in InitCallers : ~crashed /\ InitOplogCount(c)
    \/ \E c \in InitCallers : ~crashed /\ InitOplogStart(c)

SpecOplog == InitOplog /\ [][OplogNext]_vars

\* One KVDBData object made over a caller's array and put through the
\* operations of the class.
InitBuffer == DurInit /\ ~durable /\ RegistryIdle /\ StoreClosed /\ HandleOpen /\ BufInit

BufferNext ==
    \/ ~crashed /\ Construct(1)
    \/ \E l \in 0..Len(ext) : ~crashed /\ ConstructOwned(1, l)
    \/ \E l \in 0..MaxLen : ~crashed /\ CreateOwned(1, l)
    \/ ~crashed /\ MakeOwned(1)
    \/ \E l \in 0..Len(ext) : ~crashed /\ SetReadBuf(1, l)
    \/ \E n \in 0..MaxLen : ~crashed /\ AdjustLen(1, n)
    \/ ~crashed /\ Destroy(1)
    \/ \E s \in ByteSeqs : ~crashed /\ Copy(1, s)

SpecBuffer == InitBuffer /\ [][BufferNext]_vars

\* An object b1 that is constructed, borrowed or owned, and a second object
\* b2 that is given clones of it; both are appended to.
CloneNext ==
    \/ ~crashed /\ Construct(1)
    \/ \E l \in 0..Len(ext) : ~crashed /\ ConstructOwned(1, l)
    \/ \E l \in 0..MaxLen : ~crashed /\ CreateOwned(1, l)
    \/ ~crashed /\ Clone(1, 2)
    \/ \E i \in {1, 2} : \E s \in ByteSeqs : ~crashed /\ Copy(i, s)

SpecClone == InitBuffer /\ [][CloneNext]_vars

\* Any two buffers of up to MaxWord bytes, compared.
InitOrder ==
    /\ DurInit /\ ~durable /\ RegistryIdle /\ StoreClosed /\ HandleOpen
    /\ ext = <<>>
    /\ heap = [r \in HeapIds |-> <<>>]
    /\ buf = [i \in {1, 2} |-> EmptyBuf]
    /\ bst = "none"
    /\ oob = FALSE
    /\ \E lhs, rhs \in Words : ord = [NoOrder EXCEPT !.lhs = lhs, !.rhs = rhs]

OrderNext == ~crashed /\ Compare

SpecOrder == InitOrder /\ [][OrderNext]_vars

(***************************************************************************)
(* Properties of sync().                                                   *)
(***************************************************************************)
\* the step in which thread t calls _db.kvdb_sync()
IssuesFlush(t) == spc[t] = "issue" /\ spc'[t] = "flush"
\* the step in which thread t calls durableCallback()
CallsDurableCallback(t) ==
    spc[t] = "callback" /\ spc'[t] = "inc" /\ oplogVisibilityManager # NoManager
\* the step in which thread t calls onDurable() and returns from sync()
CallsOnDurable(t) == spc[t] = "notifyAll" /\ spc'[t] = "idle"
\* the threads between capturing the token / boundary and publishing it
InSyncBody == {t \in SyncThreads : spc[t] \in {"issue", "flush", "callback", "inc", "notifyAll"}}

\* C1: whenever a sync() calls durableCallback, the kvdb_sync() of that same
\* sync() has returned, the call goes to the registered manager, and the
\* boundary passed is the value getCommitBoundary returned before the flush
\* was issued, hence not above the manager's boundary when the flush started.
C1_VisibilityOrdering ==
    [][\A t \in SyncThreads :
         CallsDurableCallback(t) =>
            /\ sg[t].flushed
            /\ sg[t].read # Uninit
            /\ lastCallback' = [mgr |-> oplogVisibilityManager, bound |-> sg[t].read]
            /\ lastCallback'.bound <= sg[t].atIssue]_vars

\* C1 witness: a durableCallback was just delivered with the pre-flush
\* boundary although the manager's boundary advanced during the flush.
C1_Witness ==
    \E t \in SyncThreads :
        /\ spc[t] = "inc"
        /\ lastCallback.mgr # NoManager
        /\ lastCallback.mgr = oplogVisibilityManager
        /\ lastCallback.bound < commitBoundary[lastCallback.mgr]
        /\ \E u \in SyncThreads \ {t} : spc[u] = "begin"

\* C2: in durable mode a waitUntilDurable() that read the counter value k
\* (waitFor = k + 1) has not left its wait while the counter is <= k, unless
\* the shutdown flag is set.
C2_WaitSafety ==
    \A w \in Waiters :
        (durable /\ wpc[w] = "exit") => (numSyncs > waitFor[w] - 1 \/ shuttingDown)

\* C2 witness: a waiter has left its wait with no shutdown in progress.
C2_Witness ==
    \E w \in Waiters : durable /\ wpc[w] = "exit" /\ ~shuttingDown /\ ppc = "idle"

\* C4: the counter never decreases, and it always equals the number of
\* completed sync() calls plus the calls that have incremented it and are
\* about to complete: every completed sync() added exactly one.
C4_SyncMonotonic ==
    [][/\ numSyncs' >= numSyncs
       /\ numSyncs' = completedSyncs' + Cardinality({t \in SyncThreads : spc'[t] = "notifyAll"})
       /\ \A t \in SyncThreads : CallsOnDurable(t) => completedSyncs' = completedSyncs + 1
      ]_vars

\* C4 witness: a caller, the flusher's worker and prepareForShutdown have each
\* completed a sync().
C4_Witness ==
    /\ durable
    /\ pg.synced
    /\ ccalls["c1"] = 1 /\ spc["c1"] = "idle"
    /\ completedSyncs >= 3
    /\ numSyncs = completedSyncs

\* C5: at most one thread is between capturing the token / commit boundary
\* and publishing it; in particular at most one is inside kvdb_sync().
C5_OneFlushAtATime == Cardinality(InSyncBody) <= 1

\* C5 witness: one thread is inside kvdb_sync() while two others have called
\* sync() and wait for the lock.
C5_Witness ==
    \E t \in SyncThreads :
        /\ spc[t] = "flush"
        /\ \A u \in {"c1", FlusherThread, ShutdownThread} \ {t} : spc[u] = "begin"

\* C6 as claimed: once the manager's shutdown flag is set no thread issues
\* an underlying flush.
C6_NoFlushAfterFlag ==
    [][shuttingDown => \A t \in SyncThreads : ~IssuesFlush(t)]_vars

\* C6 amended: once prepareForShutdown() has returned the flusher's worker
\* has exited and is in no sync(): it issues no further flush.
C6_NoWorkerFlushAfterShutdown ==
    (ppc = "done" /\ durable) => (fpc = "exited" /\ spc[FlusherThread] = "idle")

\* C6 witness: prepareForShutdown() has returned after the worker flushed.
C6_Witness ==
    ppc = "done" /\ durable /\ fpc = "exited" /\ completedSyncs >= 2

\* C8: a sync() that completes has called getToken exactly once, before its
\* flush, and calls onDurable after the flush and after the counter
\* increment, with the token it captured, on the listener that issued it.
C8_ListenerPairing ==
    [][\A t \in SyncThreads :
         /\ IssuesFlush(t) => sg[t].gets = 1
         /\ CallsOnDurable(t) =>
              /\ sg[t].gets = 1
              /\ sg[t].flushed
              /\ sg[t].incremented
              /\ lastDurable'.tok = sg[t].captured
              /\ lastDurable'.lsn = sg[t].captured.lsn]_vars

\* C8 witness: onDurable went to the listener that issued the token and the
\* listener was swapped afterwards while another sync() is under way.
C8_Witness ==
    /\ lastDurable.lsn = "jl1"
    /\ lastDurable.tok.seq >= 2
    /\ journalListener = NoOpListener
    /\ \E t \in SyncThreads : spc[t] = "flush" /\ token[t].lsn = NoOpListener

(***************************************************************************)
(* Properties of waitUntilDurable() against prepareForShutdown().          *)
(***************************************************************************)
\* prepareForShutdown() has been called and has not returned
ShutdownRunning == ppc \notin {"idle", "done"}
\* prepareForShutdown() is running and has not yet seen _numWaits at zero
ShutdownBeforeDrain == ppc \in {"sync", "store", "notify", "poll"}

\* C3: a waitUntilDurable() call in flight while prepareForShutdown() runs
\* eventually returns, wherever the waiter's predicate check and its parking
\* fall relative to the store of the flag and the notify_all.
C3_WaitLiveness ==
    \A w \in Waiters : (wpc[w] # "idle" /\ ShutdownRunning) ~> (wpc[w] = "idle")

\* The lost wake-up alone does not hang a waiter: a call in flight before
\* prepareForShutdown() has seen the waiters counter at zero returns, because
\* the worker is still running and its next sync() notifies the waiter.
WaiterBeforeDrainReturns ==
    \A w \in Waiters : (wpc[w] # "idle" /\ ShutdownBeforeDrain) ~> (wpc[w] = "idle")

\* the wake-up was lost: the flag is set and notify_all done while a waiter
\* that saw the predicate false has only now parked
LostWakeup ==
    \E w \in Waiters :
        /\ wpc[w] = "blocked"
        /\ shuttingDown
        /\ ppc = "poll"
        /\ ~(numSyncs > waitFor[w])

\* what holds as prepareForShutdown() returns, apart from the waiters
ShutdownPost ==
    /\ pg.flagAfterSync
    /\ shuttingDown
    /\ durable => (fpc = "exited" /\ spc[FlusherThread] = "idle" /\ journalFlusher = "released")

\* the step in which prepareForShutdown() returns
ShutdownReturns == ppc # "done" /\ ppc' = "done"

\* C7: prepareForShutdown() eventually returns, and when it returns it has
\* synced before setting the flag, the in-flight-waiters counter is zero, the
\* worker has exited and the flusher is released.
C7_ShutdownReturnsDrained ==
    /\ (ppc # "idle") ~> (ppc = "done")
    /\ [][ShutdownReturns => (ShutdownPost' /\ numWaits' = 0)]_vars

\* Without the waiters counter: prepareForShutdown() eventually returns, has
\* synced before setting the flag, every waitUntilDurable() call that was in
\* flight when the flag was set has returned, the worker has exited and the
\* flusher is released.
ShutdownReturnsFlusherStopped ==
    /\ (ppc # "idle") ~> (ppc = "done")
    /\ [][ShutdownReturns =>
            (ShutdownPost' /\ \A w \in Waiters : wcalls'[w] >= pg'.need[w])]_vars

(***************************************************************************)
(* Properties of KvsCursor::update().                                      *)
(***************************************************************************)
\* the nearest key of view strictly beyond key k in the cursor's direction
Beyond(view, k, forward) ==
    LET past == {j \in Keys : view[j] # Absent /\ (IF forward THEN j > k ELSE j < k)}
    IN  IF past = {} THEN NullKey
        ELSE IF forward THEN CHOOSE j \in past : \A i \in past : j <= i
        ELSE CHOOSE j \in past : \A i \in past : j >= i

\* what a read() returns when the next key is k
ResultAt(view, k) ==
    IF k = NullKey THEN [eof |-> TRUE, key |-> NullKey, val |-> Absent]
    ELSE [eof |-> FALSE, key |-> k, val |-> view[k]]

\* C9: an update() right after a read() that returned K3 lands on K3 and
\* skips it if K3 is still in the store, and lands on K3's successor without
\* a skip read if K3 was deleted; either way the reads that follow return
\* the keys beyond K3 in order, each once.
C9_ResumeSkip ==
    [][/\ (CursorUpdate /\ lastOp = "read" /\ ~res.eof) =>
            IF store[res.key] # Absent
            THEN cur'.skipped /\ cur'.kvs_key = res.key
            ELSE ~cur'.skipped /\ cur'.kvs_seek_key = Beyond(store, res.key, cur.forward)
       /\ (CursorRead /\ resume.on) =>
            res' = ResultAt(resume.view, Beyond(resume.view, resume.after, cur.forward))
      ]_vars

\* C9 witness: K3 was read and then deleted, update() ran, and the two
\* reads since returned K4 and the key after it.
C9_Witness ==
    resume.on /\ resume.deleted /\ resume.n = 2 /\ lastOp = "read" /\ ~res.eof

\* C10: over an unchanged store every read() returns the same (key, value,
\* endOfScope) on the cursor that went through update() calls as on the one
\* that did not.
C10_UpdatePreservesPosition == res = refRes


(***************************************************************************)
(* Properties of the native cursor's creation and destruction.             *)
(***************************************************************************)
Threw == kpc \in {"ctorThrew", "updateThrew"}

\* C11: _kvs_cursor_create(), called from the constructor or from update(),
\* never hands an EAGAIN to its caller: while the last native result is
\* EAGAIN the call is still in its loop; it returns on the first native
\* call that succeeds, with a handle that is live, every attempt before it
\* having been a retried EAGAIN; it throws on the first result that is
\* neither success nor EAGAIN and makes no attempt after it; and once the
\* store stops giving EAGAIN the call ends.
C11_CreateRetries ==
    /\ [](lastSt = EAGAIN => InCreate)
    /\ [](kpc = "ready" => /\ lastSt = "ok"
                           /\ attempts = retries + 1
                           /\ cursor \in 1..issued
                           /\ destroyed[cursor] = 0)
    /\ [](Threw => lastSt \notin {"ok", EAGAIN} /\ attempts = retries + 1)
    /\ [][Threw => attempts' = attempts]_vars
    /\ (InCreate ~> ~InCreate)

\* update()'s recreate has returned after the store gave EAGAIN as often as
\* it ever does
C11_Witness ==
    /\ kpc = "ready"
    /\ lastOp = "update"
    /\ retries = MaxEagain
    /\ cursor = 2

\* C12: over construction, update() and destruction, every native cursor
\* handle the KvsCursor obtained is passed to hse_kvs_cursor_destroy() at
\* most once at any time, and exactly once by the time the destructor has
\* run, also when update()'s recreate threw after the old handle was
\* destroyed.
C12_DestroyedOnce ==
    /\ \A h \in Handles : destroyed[h] <= 1
    /\ kpc = "destroyed" => \A h \in 1..issued : destroyed[h] = 1

\* what does hold: no handle is leaked, and a handle is destroyed twice only
\* by the destructor that follows a throwing update()
NoHandleLeaked == kpc = "destroyed" => \A h \in 1..issued : destroyed[h] >= 1

(***************************************************************************)
(* Properties of KVDBData.                                                 *)
(***************************************************************************)
\* the capacity of a buffer: the allocation's length when it is owned, the
\* length of the memory it was given when it is borrowed
Capacity(b) == IF b.owned THEN b.allocLen ELSE b.bufLen

\* what an append of s to b1 has to do: succeed iff s fits the room left,
\* then the length grows by Len(s) and the bytes that were valid stay; fail
\* with EMSGSIZE otherwise and leave the buffer as it was
AppendAsStated(s) ==
    LET b == buf[1]
        after == (bytes(buf[1]))'
    IN  Copy(1, s) =>
            IF Len(s) <= Capacity(b) - b.len
            THEN /\ bst' = "ok"
                 /\ buf'[1].len = b.len + Len(s)
                 /\ \A k \in 1..b.len : after[k] = bytes(b)[k]
            ELSE /\ bst' = EMSGSIZE
                 /\ UNCHANGED <<buf, heap, ext>>

\* C13: copy() on a buffer of capacity c and length l appends n bytes iff
\* n <= c - l; on success the length is l + n and the first l bytes are
\* unchanged, on failure EMSGSIZE is returned and the buffer is unchanged.
C13_CopyCapacity == [][\A s \in ByteSeqs : AppendAsStated(s)]_vars

\* what does hold: copy() does so on every buffer whose length is within
\* its capacity
CopyCapacityWithin ==
    [][buf[1].len <= Capacity(buf[1]) => \A s \in ByteSeqs : AppendAsStated(s)]_vars

\* b2 holds an allocation that b1 holds too
SharesStorage == buf[2].ownedData # NullPtr /\ buf[2].ownedData = buf[1].ownedData

\* C14: the buffer clone() returns is owned and has an allocation of its
\* own, whether the source is borrowed or owned, so that no append to b1 or
\* to its clone b2 changes the bytes read through the other.
C14_CloneIndependent ==
    /\ [][Clone(1, 2) => buf'[2].owned /\ ~SharesStorage']_vars
    /\ [][\A s \in ByteSeqs :
            /\ Copy(1, s) => (bytes(buf[2]))' = bytes(buf[2])
            /\ Copy(2, s) => (bytes(buf[1]))' = bytes(buf[1])]_vars

\* what does hold: the clone of a buffer that is not owned has its own
\* allocation
CloneOfBorrowedIndependent ==
    [][~buf[1].owned /\ Clone(1, 2) => buf'[2].owned /\ ~SharesStorage']_vars

\* C15: the valid length of a buffer never exceeds its capacity, whichever
\* constructor made it and whichever of copy, adjustLen, makeOwned,
\* createOwned, setReadBuf and destroy were applied to it.
C15_LenWithinCapacity == buf[1].len <= Capacity(buf[1])

\* the bytes the view b1 was made over
Viewed == SubSeq(ext, 1, buf[1].len)

\* b2 = b1.clone() gives an owned buffer with the length and the bytes of
\* the view b1, by a memcpy that stays inside the memory it is given
ClonesTheView ==
    Clone(1, 2) =>
        /\ buf'[2].owned
        /\ buf'[2].len = buf[1].len
        /\ (bytes(buf[2]))' = Viewed
        /\ oob' = oob

\* C16: for every byte sequence s and every constructor that borrows it,
\* clone(view(s)) is owned, as long as the view and holds the bytes of s,
\* and the copy it makes neither reads outside the valid bytes of the
\* source nor writes outside the new allocation.
C16_CloneRoundTrip == [][buf[1] \in Views => ClonesTheView]_vars

\* what does hold: so it is for the views made from a pointer and a length
\* or from a string
CloneOfSizedView ==
    [][buf[1] \in {PtrLenView(l) : l \in 0..Len(ext)} \cup {StringView} => ClonesTheView]_vars

(***************************************************************************)
(* Properties of operator< and operator==.                                 *)
(***************************************************************************)
\* a comes before b in the lexicographic order of byte strings: at the
\* first place where they differ a has the smaller byte, or they differ
\* nowhere and a is the shorter
LexBefore(a, b) ==
    \/ \E i \in 1..min(Len(a), Len(b)) :
          /\ a[i] < b[i]
          /\ \A j \in 1..(i - 1) : a[j] = b[j]
    \/ /\ Len(a) < Len(b)
       /\ \A j \in 1..Len(a) : a[j] = b[j]

\* C17: a < b holds iff a comes before b in the lexicographic order (first
\* differing byte smaller, or a proper prefix of b); operator== holds iff
\* the bytes are the same; exactly one of a < b, a == b, b < a holds; the
\* order is transitive; ("a","ab") gives true, ("b","a") false and
\* ("abc","abc") neither a < b nor b < a.
C17_LexicographicOrder ==
    ord.done =>
        /\ ord.lt = LexBefore(ord.lhs, ord.rhs)
        /\ ord.gt = LexBefore(ord.rhs, ord.lhs)
        /\ ord.eq = (ord.lhs = ord.rhs)
        /\ \/ ord.lt /\ ~ord.eq /\ ~ord.gt
           \/ ~ord.lt /\ ord.eq /\ ~ord.gt
           \/ ~ord.lt /\ ~ord.eq /\ ord.gt
        /\ \A c \in Words : ord.lt /\ Less(ord.rhs, c) => Less(ord.lhs, c)
        /\ ord.lhs = <<97>> /\ ord.rhs = <<97, 98>> => ord.lt
        /\ ord.lhs = <<98>> /\ ord.rhs = <<97>> => ~ord.lt
        /\ ord.lhs = <<97, 98, 99>> /\ ord.rhs = <<97, 98, 99>> => ~ord.lt /\ ~ord.gt

\* "a" and "ab" have been compared, and "a" < "ab"
C17_Witness == ord.done /\ ord.lhs = <<97>> /\ ord.rhs = <<97, 98>> /\ ord.lt /\ ~ord.gt

(***************************************************************************)
(* Properties of the non-durable mode and of waitUntilDurable().           *)
(***************************************************************************)
\* C18: with durability disabled sync() does nothing: no thread is ever
\* inside its body, no token is taken, no commit boundary read, no flush
\* issued, no durableCallback() or onDurable() made, and the counter of
\* syncs stays as it was; and waitUntilDurable() never takes the lock or
\* parks: it goes from its entry straight to its return, where the
\* counter of waiters is back at the value it had before the call.
C18_NonDurableNoOp ==
    ~durable =>
        /\ \A t \in SyncThreads :
              /\ spc[t] = "idle"
              /\ token[t] = NoToken
              /\ newBound[t] = Uninit
              /\ sg[t] = FreshSync
        /\ numSyncs = 0
        /\ tokenSeq = 0
        /\ completedSyncs = 0
        /\ lastCallback = NoCallback
        /\ lastDurable = NoDurable
        /\ journalListenerMutex = Free /\ oplogMutex = Free /\ syncMutex = Free
        /\ \A w \in Waiters : wpc[w] \in {"idle", "exit"}
        /\ numWaits = Cardinality({w \in Waiters : wpc[w] = "exit"})

\* with durability disabled a sync() has been called, a waitUntilDurable()
\* has returned and prepareForShutdown() has made its sync() call
C18_Witness ==
    /\ ~durable
    /\ ccalls["c1"] = MaxCalls
    /\ \E w \in Waiters : wcalls[w] = 1 /\ wpc[w] = "idle"
    /\ numWaits = 0
    /\ pg.synced

\* the value of _numSyncs that const auto waitFor = _numSyncs + 1 read
Recorded(w) == waitFor[w] - 1

\* C19: in durable mode waitUntilDurable() records the counter's value c,
\* asks the flusher for a flush, and can return as soon as the counter
\* exceeds c, one sync() completed since then being enough, or the
\* shutdown flag is set: a call that evaluates its wait condition then
\* leaves the wait.
C19_ReleasedByOneSync ==
    [][\A w \in Waiters :
          /\ durable /\ WaitLock(w) => flushPending' /\ Recorded(w)' = numSyncs
          /\ durable /\ WaitCheck(w) /\ (numSyncs > Recorded(w) \/ shuttingDown)
                => wpc'[w] = "exit"]_vars

\* what does hold: the call leaves the wait exactly when the counter
\* exceeds c + 1, two sync() calls having completed since c was read, or
\* the shutdown flag is set
WaitReleasedByTwoSyncs ==
    [][\A w \in Waiters :
          WaitCheck(w) => (wpc'[w] = "exit" <=> (numSyncs > Recorded(w) + 1 \/ shuttingDown))]_vars

\* C20: in durable mode, a waitUntilDurable() call that returns while
\* _shuttingDown is not set has seen a kvdb_sync() that was called after the
\* call began return; a kvdb_sync() already in progress when the call began
\* does not count.
C20_FlushSinceEntry ==
    \A w \in Waiters :
        (durable /\ wpc[w] = "exit" /\ ~shuttingDown) => wg[w].served

\* C20 witness: a call that began while a kvdb_sync() was in progress
\* returns without shutdown, a later kvdb_sync() having returned.
C20_Witness ==
    \E w \in Waiters :
        /\ durable
        /\ wpc[w] = "exit"
        /\ ~shuttingDown
        /\ wg[w].inProgress
        /\ wg[w].served

(***************************************************************************)
(* Properties of the flusher's release, the visibility manager's swap and  *)
(* the flusher's pending flag.                                             *)
(***************************************************************************)
\* waitUntilDurable() reaches _journalFlusher->notifyFlusher()
NotifiesFlusher(w) == WaitLock(w)

\* C21: no waitUntilDurable() call reaches _journalFlusher->notifyFlusher()
\* after prepareForShutdown() has stopped the flusher and reset
\* _journalFlusher, however the call's entry falls relative to the poll of
\* _numWaits and the reset.
C21_NoUseAfterRelease ==
    [][\A w \in Waiters : NotifiesFlusher(w) => journalFlusher # "released"]_vars

\* what does hold: a call that is in flight when prepareForShutdown() polls
\* _numWaits keeps the flusher from being released until it has returned
FlusherKeptForCountedWaiter ==
    [][ShutdownPoll => \A w \in Waiters : wpc[w] = "idle"]_vars

\* a sync() between its test of _oplogVisibilityManager for getCommitBoundary
\* and its test for durableCallback
BetweenReadAndCallback(t) == spc[t] \in {"issue", "flush", "callback"}

\* C22: setOplogVisibilityManager() takes no effect between a sync()'s
\* getCommitBoundary() and its durableCallback(): while a sync() is between
\* the two it holds _oplogMutex and the registered manager is the one it
\* read; every durableCallback() is made holding _oplogMutex and goes to the
\* manager whose boundary was read, which is the one registered then, so
\* none goes to a manager that a returned setOplogVisibilityManager(null)
\* has detached.
C22_SwapAtomic ==
    /\ [](\A t \in SyncThreads :
            BetweenReadAndCallback(t) =>
                oplogMutex = t /\ oplogVisibilityManager = sg[t].mgr)
    /\ [][\A t \in SyncThreads :
            CallsDurableCallback(t) =>
                /\ oplogMutex = t
                /\ lastCallback'.mgr = sg[t].mgr
                /\ lastCallback'.mgr = oplogVisibilityManager
                /\ lastCallback'.bound = sg[t].read]_vars
    /\ [][\A t \in SyncThreads :
            (spc[t] = "callback" /\ spc'[t] = "inc" /\ oplogVisibilityManager = NoManager)
                => UNCHANGED lastCallback /\ sg[t].mgr = NoManager]_vars

\* C22 witness: a sync() has delivered durableCallback() to the manager it
\* read, and setOplogVisibilityManager(null) has detached that manager as
\* soon as the sync() released _oplogMutex.
C22_Witness ==
    \E t \in SyncThreads :
        /\ spc[t] = "inc"
        /\ sg[t].mgr # NoManager
        /\ lastCallback = [mgr |-> sg[t].mgr, bound |-> sg[t].read]
        /\ oplogVisibilityManager = NoManager

\* the step that ends a turn of the worker's loop: its sync() returns or
\* run() leaves the loop
TurnEnds == fpc \in {"chk2", "sync"} /\ fpc' \in {"top", "exited"}

\* the flag is a boolean that stands for any number of calls, and the
\* worker's wake clears it
OnePendingFlag ==
    /\ [](flushPending \in BOOLEAN /\ (flushPending <=> fg.notes > 0))
    /\ [][fpc = "wait" /\ fpc' # "wait" => ~flushPending']_vars

\* C23: any number (>= 1) of notifyFlusher() calls made while the worker
\* waits set the one boolean _flushPending, the worker clears it as it
\* wakes, and the turn of the loop that the wake starts makes exactly one
\* sync() call.
C23_OneSyncPerWake ==
    /\ OnePendingFlag
    /\ [][TurnEnds /\ fg.woke >= 1 => fg.syncs = 1]_vars

\* C23 as it holds: exactly one sync() call for the wake, or none when the
\* flusher's shutdown flag is set by the time the worker tests it after
\* waking, the worker then leaving its loop.
C23_OneSyncPerWakeUnlessShutDown ==
    /\ OnePendingFlag
    /\ [](fg.syncs <= 1)
    /\ [][TurnEnds /\ fg.woke >= 1 =>
            \/ fg.syncs = 1 /\ fpc' = "top"
            \/ fg.syncs = 0 /\ fpc' = "exited" /\ fShuttingDown]_vars

\* C23 witness: two notifyFlusher() calls were made while the worker
\* waited, and the turn that its wake started has ended after one sync().
C23_Witness == fg.woke = 2 /\ fg.syncs = 1 /\ fpc = "top" /\ ~flushPending

\* C24: every notifyFlusher() call made while the flusher is not shut down,
\* one made while the worker is between its wake and the end of its sync()
\* included, is eventually followed by a kvdb_sync() that the worker calls.
C24_NoRequestLost == fg.owed ~> ~fg.owed

\* C24 as it holds: the worker's kvdb_sync() follows, unless the flusher is
\* shut down before the worker has called it.
C24_NoRequestLostUnlessShutDown == fg.owed ~> (~fg.owed \/ fShuttingDown)

\* C24 witness: a notifyFlusher() call made while the worker was inside its
\* sync(), after the kvdb_sync() of that sync() was called, has been
\* followed by the kvdb_sync() of the worker's next sync().
C24_Witness ==
    /\ fg.served >= 1
    /\ ~fg.owed
    /\ spc[FlusherThread] = "flush"
    /\ ~fShuttingDown

(***************************************************************************)
(* The in-flight-waiters counter.                                          *)
(***************************************************************************)
\* the threads inside waitUntilDurable()
InWait == {w \in Waiters : wpc[w] # "idle"}

\* C25: _numWaits is the number of threads inside waitUntilDurable(), with
\* durability on or off, and is never negative; it changes only as a call
\* begins or returns, every return from whatever point of the call takes
\* exactly one off, and it is zero when no call is in progress.
C25_WaitersCounted ==
    /\ [](numWaits = Cardinality(InWait) /\ numWaits >= 0)
    /\ []((InWait = {}) => numWaits = 0)
    /\ [][\A w \in Waiters :
            /\ (w \in InWait /\ w \notin InWait') => numWaits' = numWaits - 1
            /\ (w \notin InWait /\ w \in InWait') => numWaits' = numWaits + 1]_vars
    /\ [][numWaits' # numWaits => InWait' # InWait]_vars

\* C25 witness: a call made with durability on has waited and returned, and
\* the counter is back at zero.
C25_Witness ==
    /\ durable
    /\ \E w \in Waiters : wcalls[w] >= 1 /\ wpc[w] = "idle"
    /\ numWaits = 0
    /\ numSyncs >= 2
    /\ ~shuttingDown

(***************************************************************************)
(* Properties of the backoff of _kvs_cursor_create().                      *)
(***************************************************************************)
\* the sleep in milliseconds after the i-th consecutive EAGAIN, i from 0
Schedule(i) ==
    CASE i = 0 -> 1 [] i = 1 -> 2 [] i = 2 -> 3 [] i = 3 -> 5 [] i = 4 -> 8
      [] OTHER -> 13

\* a turn of the loop of _kvs_cursor_create() is taken
LoopTurn == InCreate /\ attempts' = attempts + 1

\* C26: the turn of the loop that gets the i-th consecutive EAGAIN, i from
\* 0, sleeps 1, 2, 3, 5, 8, 13 ms for i = 0..5 and 13 ms for every later i
\* before the next attempt; a warning is logged in the turns entered with
\* 20, 40, 60, ... retries behind them and in no other turn.
C26_BackoffSchedule ==
    /\ [][LoopTurn /\ lastSt' = EAGAIN =>
            /\ slept' = [after |-> retries, ms |-> Schedule(retries)]
            /\ retries' = retries + 1]_vars
    /\ [][LoopTurn /\ lastSt' # EAGAIN => slept' = slept /\ retries' = retries]_vars
    /\ [][LoopTurn =>
            warned' = IF retries > 0 /\ retries % 20 = 0
                      THEN warned \cup {retries} ELSE warned]_vars
    /\ [](\A n \in 1..(MaxRetry + 1) :
            /\ n \in warned => n % 20 = 0
            /\ (n < retries /\ n % 20 = 0) => n \in warned)

\* C26 witness: 41 consecutive EAGAIN results in one call; the last sleep
\* was of 13 ms and the warning was logged at 20 and at 40 retries.
C26_Witness ==
    /\ retries = 41
    /\ slept = [after |-> 40, ms |-> 13]
    /\ warned = {20, 40}

(***************************************************************************)
(* The registry of oplog background threads.                               *)
(***************************************************************************)
\* the call of caller c returns in this step
InitOplogReturns(c) == icalls'[c] = icalls[c] + 1

\* what the registry holds and what was started, at any time: at most one
\* thread per namespace, threads and entries only for oplog namespaces and
\* never in repair mode, a thread for exactly the registered namespaces
RegistrySound ==
    /\ \A ns \in Namespaces : started[ns] <= 1
    /\ \A ns \in Namespaces : started[ns] = 1 <=> ns \in backgroundThreadNamespaces
    /\ \A ns \in backgroundThreadNamespaces : IsOplog(ns) /\ ~repair
    /\ \A c \in InitCallers :
          iret[c] = Returned(TRUE) => started[ins[c]] = 1

\* C27: for any interleaving of concurrent initOplogStoreThread calls, at most
\* one background thread is ever started per oplog namespace; a call for a
\* namespace that is not an oplog namespace, or in repair mode, returns false
\* and neither starts nor registers anything; every other call returns true,
\* whether it started the thread or found it already started.
C27_OneThreadPerOplog ==
    /\ []RegistrySound
    /\ [][\A c \in InitCallers :
            InitOplogReturns(c) =>
                /\ iret'[c] = Returned(IsOplog(ins'[c]) /\ ~repair)
                /\ iret'[c] = Returned(FALSE) =>
                      UNCHANGED <<started, backgroundThreadNamespaces>>]_vars

\* both callers asked for the same oplog namespace, both returned true, and
\* one thread runs for it
C27_Witness ==
    /\ ins["i1"] = <<"local", "oplog", "rs">> /\ ins["i2"] = ins["i1"]
    /\ iret["i1"] = Returned(TRUE) /\ iret["i2"] = Returned(TRUE)
    /\ icalls["i1"] = 1 /\ icalls["i2"] = 1
    /\ started[<<"local", "oplog", "rs">>] = 1
    /\ backgroundThreadNamespaces = {<<"local", "oplog", "rs">>}

=============================================================================
